---- MODULE Spec2Model ----
(***************************************************************************)
(* Model of the BookStore application: the books table behind             *)
(* BookRepository, the BooksController request handlers in front of it,   *)
(* and the Dashboard component's filter and statistics handlers.          *)
(*                                                                         *)
(* Strings that the code inspects character by character (name,           *)
(* description, search) are sequences of one-character strings; an         *)
(* optional value (C# T?, TypeScript T | undefined) is a sequence of       *)
(* length 0 (absent) or 1 (present).  Prices are counted in thousandths    *)
(* of the currency unit so that the decimal(10,2) column's scale shows.    *)
(***************************************************************************)
EXTENDS Integers, Sequences, FiniteSets, TLC

VARIABLES
    books,      \* the books table: id -> stored row, for the ids that exist
    nextId,     \* the number of ids handed out so far (Guid.NewGuid is fresh)
    now,        \* DateTime.UtcNow as read by the last SaveChangesAsync
    creator,    \* history: id -> the authenticated user whose create made it
    request,    \* the last HTTP request the API served
    response,   \* the API's answer to it
    queryFilters, \* the BookFiltersDto of the listing requests under test
    authUser,   \* Dashboard: the user whose token the browser holds (or None)
    filters,    \* Dashboard: the filters state
    dashBooks,  \* Dashboard: the books state (the list on display)
    stats,      \* Dashboard: the stats state
    uiEvent,    \* history: the last Dashboard event and its input
    users,      \* the users table: id -> stored row
    files,      \* wwwroot/uploads: <<directory, file name>> -> bytes
    nextGuid,   \* the number of Guids the upload handlers have drawn
    credential, \* the bearer token the last request carried (or None)
    storeBooks, \* Store: the books state (the list on display)
    storeError, \* Store: the error state (the alert on display, "" for none)
    inflight,   \* the requests and flows that have started and not finished
    uploader,   \* history: path -> the user whose upload last wrote it
    location    \* the browser's current path, as its segments ('/' is <<>>)

vars == <<books, nextId, now, creator, request, response, queryFilters,
          authUser, filters, dashBooks, stats, uiEvent,
          users, files, nextGuid, credential,
          storeBooks, storeError, inflight, uploader, location>>

(***************************************************************************)
(* Bounds of the model.                                                    *)
(***************************************************************************)
\* how many books are ever created in one behaviour
MaxBooks == 2
\* how many times the clock is read by a write (create or update)
MaxTime == 3

Users == {"u1", "u2"}
BookIds == 1..MaxBooks

(***************************************************************************)
(* Optional values.                                                        *)
(***************************************************************************)
None == <<>>
Some(v) == <<v>>
HasValue(o) == o # <<>>
Value(o) == o[1]

(***************************************************************************)
(* Strings.                                                                *)
(***************************************************************************)
ToLowerChar(c) ==
    CASE c = "A" -> "a"
      [] c = "B" -> "b"
      [] c = "F" -> "f"
      [] OTHER -> c

ToLower(s) == [i \in 1..Len(s) |-> ToLowerChar(s[i])]

Contains(s, t) ==
    \E i \in 0..(Len(s) - Len(t)) : SubSeq(s, i + 1, i + Len(t)) = t

\* string.IsNullOrEmpty on an optional string
IsNullOrEmpty(o) == ~HasValue(o) \/ Value(o) = <<>>

(***************************************************************************)
(* The books table.                                                        *)
(***************************************************************************)
\* price is decimal(10,2): PostgreSQL rounds a value of larger scale to two
\* fraction digits, ties away from zero (prices here are never negative)
NumericScale2(p) == ((p + 5) \div 10) * 10

\* the row the INSERT or UPDATE leaves in the table for a tracked entity
StoredRow(book) == [book EXCEPT !.price = NumericScale2(book.price)]

\* BookStoreContext.UpdateTimestamps, for an entry in state Added or Modified
UpdateTimestamps(book, state, utcNow) ==
    IF state = "Added"
        THEN [book EXCEPT !.createdAt = utcNow, !.updatedAt = utcNow]
        ELSE [book EXCEPT !.updatedAt = utcNow]

RECURSIVE OrderByDescendingCreatedAt(_)
OrderByDescendingCreatedAt(rows) ==
    IF rows = {} THEN <<>>
    ELSE LET first == CHOOSE r \in rows : \A o \in rows : o.createdAt <= r.createdAt
         IN  <<first>> \o OrderByDescendingCreatedAt(rows \ {first})

Rows(bks) == {bks[i] : i \in DOMAIN bks}

\* mutant: the search looks at the name only
WhereSearchNameOnly(rows, f) ==
    IF ~IsNullOrEmpty(f.search)
        THEN LET searchLower == ToLower(Value(f.search))
             IN  {b \in rows : Contains(ToLower(b.name), searchLower)}
        ELSE rows

\* the Where clauses both listing queries add for a BookFiltersDto
WhereSearch(rows, f) ==
    IF ~IsNullOrEmpty(f.search)
        THEN LET searchLower == ToLower(Value(f.search))
             IN  {b \in rows : \/ Contains(ToLower(b.name), searchLower)
                               \/ Contains(ToLower(b.description), searchLower)}
        ELSE rows

WhereCategory(rows, f) ==
    IF ~IsNullOrEmpty(f.category)
        THEN {b \in rows : b.category = Value(f.category)}
        ELSE rows

WhereMinPrice(rows, f) ==
    IF HasValue(f.minPrice)
        THEN {b \in rows : b.price >= Value(f.minPrice)}
        ELSE rows

WhereMaxPrice(rows, f) ==
    IF HasValue(f.maxPrice)
        THEN {b \in rows : b.price <= Value(f.maxPrice)}
        ELSE rows

GetAllAsync(bks, f) ==
    OrderByDescendingCreatedAt(
        WhereMaxPrice(WhereMinPrice(WhereCategory(WhereSearch(Rows(bks), f), f), f), f))

\* mutant: the category clause is lost from the copy of the filter block
GetByUserIdAsyncNoCategory(bks, userId, f) ==
    OrderByDescendingCreatedAt(
        WhereMaxPrice(WhereMinPrice(WhereSearch(
            {b \in Rows(bks) : b.userId = userId}, f), f), f))

GetByUserIdAsync(bks, userId, f) ==
    OrderByDescendingCreatedAt(
        WhereMaxPrice(WhereMinPrice(WhereCategory(WhereSearch(
            {b \in Rows(bks) : b.userId = userId}, f), f), f), f))

GetByIdAsync(bks, id) ==
    IF id \in DOMAIN bks THEN Some(bks[id]) ELSE None

\* mutant: the ownership conjunct is dropped from the predicate
\* the code points of the letters in use; ORDER BY compares by them
CharCode(c) ==
    CASE c = "A" -> 65 [] c = "B" -> 66 [] c = "F" -> 70
      [] c = "a" -> 97 [] c = "b" -> 98 [] c = "f" -> 102
      [] OTHER -> 0

RECURSIVE StringLess(_, _)
StringLess(s, t) ==
    IF t = <<>> THEN FALSE
    ELSE IF s = <<>> THEN TRUE
    ELSE IF Head(s) # Head(t) THEN CharCode(Head(s)) < CharCode(Head(t))
    ELSE StringLess(Tail(s), Tail(t))

RECURSIVE OrderByAscending(_)
OrderByAscending(strs) ==
    IF strs = {} THEN <<>>
    ELSE LET first == CHOOSE c \in strs : \A o \in strs \ {c} : StringLess(c, o)
         IN  <<first>> \o OrderByAscending(strs \ {first})

\* mutant: categories compared without regard to case
GetCategoriesAsyncIgnoreCase(bks) ==
    OrderByAscending({ToLower(b.category) : b \in Rows(bks)})

GetCategoriesAsync(bks) ==
    OrderByAscending({b.category : b \in Rows(bks)})

ExistsAsyncAnyOwner(bks, id, userId) ==
    \E i \in DOMAIN bks : bks[i].id = id

ExistsAsync(bks, id, userId) ==
    \E i \in DOMAIN bks : bks[i].id = id /\ bks[i].userId = userId

\* Add + SaveChangesAsync + GetByIdAsync(book.Id) ?? book: the entity handed
\* back is the tracked one, with the values it has in memory
CreateAsync(bks, utcNow, book) ==
    LET entity == UpdateTimestamps(book, "Added", utcNow)
    IN  [books |-> [i \in DOMAIN bks \cup {entity.id} |->
                       IF i = entity.id THEN StoredRow(entity) ELSE bks[i]],
         entity |-> entity]

\* mutant: a row that is gone is written back
UpdateAsyncUpsert(bks, utcNow, book) ==
    LET entity == UpdateTimestamps(book, "Modified", utcNow)
    IN  [books |-> [i \in DOMAIN bks \cup {book.id} |->
                       IF i = book.id THEN StoredRow(entity) ELSE bks[i]],
         entity |-> entity, threw |-> FALSE]

\* Update + SaveChangesAsync + GetByIdAsync(book.Id) ?? book; the UPDATE of a
\* row that is gone affects no row and SaveChangesAsync throws
UpdateAsync(bks, utcNow, book) ==
    LET entity == UpdateTimestamps(book, "Modified", utcNow)
    IN  IF book.id \in DOMAIN bks
            THEN [books |-> [bks EXCEPT ![book.id] = StoredRow(entity)],
                  entity |-> entity, threw |-> FALSE]
            ELSE [books |-> bks, entity |-> entity, threw |-> TRUE]

\* mutant: Remove without the SaveChangesAsync that makes it take effect
DeleteAsyncNotSaved(bks, id, userId) ==
    IF \E i \in DOMAIN bks : bks[i].id = id /\ bks[i].userId = userId
        THEN [books |-> bks, deleted |-> TRUE]
        ELSE [books |-> bks, deleted |-> FALSE]

DeleteAsync(bks, id, userId) ==
    IF \E i \in DOMAIN bks : bks[i].id = id /\ bks[i].userId = userId
        THEN [books |-> [i \in DOMAIN bks \ {id} |-> bks[i]], deleted |-> TRUE]
        ELSE [books |-> bks, deleted |-> FALSE]

(***************************************************************************)
(* BooksController.                                                        *)
(***************************************************************************)
\* the body fields of BookDto (the nested UserDto repeats the users table,
\* which this model does not hold)
MapToDto(book) ==
    [id |-> book.id, name |-> book.name, category |-> book.category,
     price |-> book.price, description |-> book.description,
     userId |-> book.userId, createdAt |-> book.createdAt,
     updatedAt |-> book.updatedAt, imageUrl |-> book.imageUrl,
     fileUrl |-> book.fileUrl, fileName |-> book.fileName,
     fileSize |-> book.fileSize]

RECURSIVE SelectMapToDto(_)
SelectMapToDto(list) ==
    IF list = <<>> THEN <<>>
    ELSE <<MapToDto(Head(list))>> \o SelectMapToDto(Tail(list))

Ok(body) == [status |-> 200, message |-> "", body |-> body]
CreatedAtAction(body) == [status |-> 201, message |-> "", body |-> body]
NoContent == [status |-> 204, message |-> "", body |-> <<>>]
NotFound(message) == [status |-> 404, message |-> message, body |-> <<>>]
StatusCode500(message) == [status |-> 500, message |-> message, body |-> <<>>]

\* mutant: the UserId assignment is missing, so UserId stays Guid.Empty
NewBookNoOwner(id, dto, userId, utcNow) ==
    [id |-> id, name |-> dto.name, category |-> dto.category,
     price |-> dto.price, description |-> dto.description,
     userId |-> "00000000-0000-0000-0000-000000000000",
     createdAt |-> utcNow, updatedAt |-> utcNow,
     imageUrl |-> dto.imageUrl, fileUrl |-> dto.fileUrl,
     fileName |-> dto.fileName, fileSize |-> dto.fileSize]

\* the Book object CreateBook builds: Id is a fresh Guid, UserId the caller
NewBook(id, dto, userId, utcNow) ==
    [id |-> id, name |-> dto.name, category |-> dto.category,
     price |-> dto.price, description |-> dto.description,
     userId |-> userId, createdAt |-> utcNow, updatedAt |-> utcNow,
     imageUrl |-> dto.imageUrl, fileUrl |-> dto.fileUrl,
     fileName |-> dto.fileName, fileSize |-> dto.fileSize]

\* mutant: an optional field the body leaves out keeps the value it had
AssignUpdateNonNull(existingBook, dto) ==
    [existingBook EXCEPT
        !.name = dto.name, !.category = dto.category, !.price = dto.price,
        !.description = dto.description,
        !.imageUrl = IF dto.imageUrl = None THEN @ ELSE dto.imageUrl,
        !.fileUrl = IF dto.fileUrl = None THEN @ ELSE dto.fileUrl,
        !.fileName = IF dto.fileName = None THEN @ ELSE dto.fileName,
        !.fileSize = IF dto.fileSize = None THEN @ ELSE dto.fileSize]

\* the eight assignments of UpdateBook to the entity it has read
AssignUpdate(existingBook, dto) ==
    [existingBook EXCEPT
        !.name = dto.name, !.category = dto.category, !.price = dto.price,
        !.description = dto.description, !.imageUrl = dto.imageUrl,
        !.fileUrl = dto.fileUrl, !.fileName = dto.fileName,
        !.fileSize = dto.fileSize]

GetAllBooksResult(bks, f) ==
    [books |-> bks, response |-> Ok(SelectMapToDto(GetAllAsync(bks, f)))]

\* mutant: my-books asks the repository for the books of every owner
GetMyBooksResultAnyOwner(bks, userId, f) ==
    [books |-> bks, response |-> Ok(SelectMapToDto(GetAllAsync(bks, f)))]

GetMyBooksResult(bks, userId, f) ==
    [books |-> bks,
     response |-> Ok(SelectMapToDto(GetByUserIdAsync(bks, userId, f)))]

GetCategoriesResult(bks) ==
    [books |-> bks, response |-> Ok(GetCategoriesAsync(bks))]

GetBookResult(bks, id) ==
    LET book == GetByIdAsync(bks, id)
    IN  IF book = None
            THEN [books |-> bks, response |-> NotFound("Book not found")]
            ELSE [books |-> bks, response |-> Ok(<<MapToDto(Value(book))>>)]

CreateBookResult(bks, newId, utcNow, userId, dto) ==
    LET created == CreateAsync(bks, utcNow, NewBook(newId, dto, userId, utcNow))
    IN  [books |-> created.books,
         response |-> CreatedAtAction(<<MapToDto(created.entity)>>)]

UpdateBookResult(bks, utcNow, userId, id, dto) ==
    IF ~ExistsAsync(bks, id, userId)
        THEN [books |-> bks, response |->
                NotFound("Book not found or you don't have permission to update it")]
    ELSE LET existingBook == GetByIdAsync(bks, id)
         IN  IF existingBook = None
                 THEN [books |-> bks, response |-> NotFound("Book not found")]
             ELSE LET updated ==
                          UpdateAsync(bks, utcNow, AssignUpdate(Value(existingBook), dto))
                  IN  IF updated.threw
                          THEN [books |-> bks, response |->
                                  StatusCode500("An error occurred while updating the book")]
                          ELSE [books |-> updated.books,
                                response |-> Ok(<<MapToDto(updated.entity)>>)]

\* mutant: a book of another owner gets its own "forbidden" answer
DeleteBookResultForbidden(bks, userId, id) ==
    LET r == DeleteAsync(bks, id, userId)
    IN  IF r.deleted THEN [books |-> r.books, response |-> NoContent]
        ELSE IF GetByIdAsync(bks, id) # None
            THEN [books |-> bks, response |->
                    [status |-> 403, message |-> "Forbidden", body |-> <<>>]]
            ELSE [books |-> bks, response |->
                    NotFound("Book not found or you don't have permission to delete it")]

DeleteBookResult(bks, userId, id) ==
    LET r == DeleteAsync(bks, id, userId)
    IN  IF ~r.deleted
            THEN [books |-> bks, response |->
                    NotFound("Book not found or you don't have permission to delete it")]
            ELSE [books |-> r.books, response |-> NoContent]

(***************************************************************************)
(* Requests.  A request body that passed the DTO's validation attributes:  *)
(* the four required fields are present, optional ones may be absent.      *)
(***************************************************************************)
DtoFull ==
    [name |-> <<"A", "b">>, category |-> <<"F">>, price |-> 9990,
     description |-> <<"a">>, imageUrl |-> Some("img"), fileUrl |-> Some("url"),
     fileName |-> Some("n.pdf"), fileSize |-> Some(1)]

DtoBare ==
    [name |-> <<"b">>, category |-> <<"f">>, price |-> 12000,
     description |-> <<"B">>, imageUrl |-> None, fileUrl |-> None,
     fileName |-> None, fileSize |-> None]

\* a price with three fraction digits, which [Range(0, 99999.99)] accepts
DtoSubCent == [DtoFull EXCEPT !.price = 9995, !.fileSize = None]

DtoFree ==
    [DtoBare EXCEPT !.price = 0, !.description = <<"a", "a">>,
                    !.imageUrl = Some("img")]

BookDtos == {DtoFull, DtoBare, DtoSubCent, DtoFree}

NoFilters ==
    [search |-> None, category |-> None, minPrice |-> None, maxPrice |-> None]

\* the BookFiltersDto objects model binding builds from a query string: a
\* parameter that is missing or blank binds to null, so a string that is
\* present is never empty
Searches == {None, Some(<<"a">>), Some(<<"A", "B">>), Some(<<"a", "A">>)}
CategoryFilters == {None, Some(<<"F">>), Some(<<"f">>)}
PriceFilters == {None, Some(0), Some(9990)}

BookFilters ==
    [search : Searches, category : CategoryFilters,
     minPrice : PriceFilters, maxPrice : PriceFilters]

Request(op, userId, id, dto, f) ==
    [op |-> op, userId |-> userId, id |-> id, dto |-> dto, filters |-> f]

NoRequest == Request("none", None, None, None, None)
NoResponse == [status |-> 0, message |-> "", body |-> <<>>]
NoStats == [totalBooks |-> 0, totalValue |-> 0, categoriesCount |-> 0]
NoEvent == [kind |-> "none", key |-> "", value |-> None]

Init ==
    /\ books = <<>>
    /\ nextId = 0
    /\ now = 0
    /\ creator = <<>>
    /\ request = NoRequest
    /\ response = NoResponse
    /\ queryFilters = NoFilters
    /\ authUser = None
    /\ filters = NoFilters
    /\ dashBooks = <<>>
    /\ stats = NoStats
    /\ uiEvent = NoEvent
    /\ users = <<>>
    /\ files = <<>>
    /\ nextGuid = 0
    /\ credential = None
    /\ storeBooks = <<>>
    /\ storeError = ""
    /\ inflight = <<>>
    /\ uploader = <<>>
    /\ location = <<>>

(***************************************************************************)
(* One action per endpoint; userId is the identity of a valid token.       *)
(***************************************************************************)
CreateBook(userId, dto) ==
    /\ nextId < MaxBooks
    /\ now < MaxTime
    /\ LET r == CreateBookResult(books, nextId + 1, now + 1, userId, dto)
       IN  /\ books' = r.books
           /\ response' = r.response
    /\ nextId' = nextId + 1
    /\ now' = now + 1
    /\ creator' = [i \in DOMAIN creator \cup {nextId + 1} |->
                      IF i = nextId + 1 THEN userId ELSE creator[i]]
    /\ request' = Request("create", Some(userId), None, Some(dto), None)
    /\ uiEvent' = NoEvent
    /\ UNCHANGED <<queryFilters, authUser, filters, dashBooks, stats>>
    /\ UNCHANGED <<users, files, nextGuid, credential,
                   storeBooks, storeError, inflight, uploader, location>>

\* the clock is read by SaveChangesAsync only, so a rejected update reads none
UpdateBook(userId, id, dto) ==
    /\ ExistsAsync(books, id, userId) => now < MaxTime
    /\ LET r == UpdateBookResult(books, now + 1, userId, id, dto)
       IN  /\ books' = r.books
           /\ response' = r.response
           /\ now' = IF r.response.status = 200 THEN now + 1 ELSE now
    /\ request' = Request("update", Some(userId), Some(id), Some(dto), None)
    /\ uiEvent' = NoEvent
    /\ UNCHANGED <<nextId, creator, queryFilters, authUser, filters, dashBooks, stats>>
    /\ UNCHANGED <<users, files, nextGuid, credential,
                   storeBooks, storeError, inflight, uploader, location>>

DeleteBook(userId, id) ==
    /\ LET r == DeleteBookResult(books, userId, id)
       IN  /\ books' = r.books
           /\ response' = r.response
    /\ request' = Request("delete", Some(userId), Some(id), None, None)
    /\ uiEvent' = NoEvent
    /\ UNCHANGED <<nextId, now, creator, queryFilters, authUser, filters, dashBooks, stats>>
    /\ UNCHANGED <<users, files, nextGuid, credential,
                   storeBooks, storeError, inflight, uploader, location>>

GetBook(id) ==
    /\ response' = GetBookResult(books, id).response
    /\ request' = Request("get", None, Some(id), None, None)
    /\ uiEvent' = NoEvent
    /\ UNCHANGED <<books, nextId, now, creator, queryFilters, authUser, filters, dashBooks, stats>>
    /\ UNCHANGED <<users, files, nextGuid, credential,
                   storeBooks, storeError, inflight, uploader, location>>

GetCategories ==
    /\ response' = GetCategoriesResult(books).response
    /\ request' = Request("categories", None, None, None, None)
    /\ uiEvent' = NoEvent
    /\ UNCHANGED <<books, nextId, now, creator, queryFilters, authUser, filters, dashBooks, stats>>
    /\ UNCHANGED <<users, files, nextGuid, credential,
                   storeBooks, storeError, inflight, uploader, location>>

GetAllBooks(f) ==
    /\ response' = GetAllBooksResult(books, f).response
    /\ request' = Request("list", None, None, None, Some(f))
    /\ uiEvent' = NoEvent
    /\ UNCHANGED <<books, nextId, now, creator, queryFilters, authUser, filters, dashBooks, stats>>
    /\ UNCHANGED <<users, files, nextGuid, credential,
                   storeBooks, storeError, inflight, uploader, location>>

GetMyBooks(userId, f) ==
    /\ response' = GetMyBooksResult(books, userId, f).response
    /\ request' = Request("my-books", Some(userId), None, None, Some(f))
    /\ uiEvent' = NoEvent
    /\ UNCHANGED <<books, nextId, now, creator, queryFilters, authUser, filters, dashBooks, stats>>
    /\ UNCHANGED <<users, files, nextGuid, credential,
                   storeBooks, storeError, inflight, uploader, location>>

Next ==
    \/ \E userId \in Users, dto \in BookDtos : CreateBook(userId, dto)
    \/ \E userId \in Users, id \in BookIds, dto \in BookDtos :
           UpdateBook(userId, id, dto)
    \/ \E userId \in Users, id \in BookIds : DeleteBook(userId, id)
    \/ \E id \in BookIds : GetBook(id)
    \/ GetCategories

Spec == Init /\ [][Next]_vars

\* the listing endpoints, asked with one filter, over the catalogs that
\* creates build
InitQuery ==
    /\ books = <<>>
    /\ nextId = 0
    /\ now = 0
    /\ creator = <<>>
    /\ request = NoRequest
    /\ response = NoResponse
    /\ queryFilters \in BookFilters
    /\ authUser = None
    /\ filters = NoFilters
    /\ dashBooks = <<>>
    /\ stats = NoStats
    /\ uiEvent = NoEvent
    /\ users = <<>>
    /\ files = <<>>
    /\ nextGuid = 0
    /\ credential = None
    /\ storeBooks = <<>>
    /\ storeError = ""
    /\ inflight = <<>>
    /\ uploader = <<>>
    /\ location = <<>>

NextQuery ==
    \/ \E userId \in Users, dto \in BookDtos : CreateBook(userId, dto)
    \/ GetAllBooks(queryFilters)
    \/ \E userId \in Users : GetMyBooks(userId, queryFilters)

SpecQuery == InitQuery /\ [][NextQuery]_vars

(***************************************************************************)
(* The Dashboard component and the ApiService call it makes.  A JavaScript *)
(* value is a record of its type tag t and its payload v.                  *)
(***************************************************************************)
JsNumber(n) == [t |-> "number", v |-> n]
JsNaN == [t |-> "NaN", v |-> 0]
JsString(str) == [t |-> "string", v |-> str]

\* the values JavaScript's || takes for false
Falsy(value) ==
    CASE value.t = "NaN" -> TRUE
      [] value.t = "number" -> value.v = 0
      [] value.t = "string" -> value.v = <<>>
      [] OTHER -> TRUE

\* value || undefined
OrUndefined(value) == IF Falsy(value) THEN None ELSE Some(value.v)

\* what an onChange handler passes for a key: e.target.value for the text
\* and select inputs, parseFloat(e.target.value) for the two price inputs
FilterInputs(key) ==
    CASE key = "search" -> {JsString(<<>>), JsString(<<"a">>)}
      [] key = "category" -> {JsString(<<>>), JsString(<<"F">>)}
      [] OTHER -> {JsNaN, JsNumber(0), JsNumber(9990)}

\* the URLSearchParams ApiService.getMyBooks builds; its argument is absent
\* when the caller passes none
GetMyBooksParams(filtersArg) ==
    IF filtersArg = None THEN NoFilters
    ELSE LET f == Value(filtersArg)
         IN  [search |-> IF HasValue(f.search) /\ Value(f.search) # <<>>
                            THEN f.search ELSE None,
              category |-> IF HasValue(f.category) /\ Value(f.category) # <<>>
                              THEN f.category ELSE None,
              minPrice |-> IF f.minPrice # None THEN f.minPrice ELSE None,
              maxPrice |-> IF f.maxPrice # None THEN f.maxPrice ELSE None]

\* [FromQuery] BookFiltersDto: a parameter that is missing or blank is null
BindQuery(params) ==
    [search |-> IF IsNullOrEmpty(params.search) THEN None ELSE params.search,
     category |-> IF IsNullOrEmpty(params.category) THEN None ELSE params.category,
     minPrice |-> params.minPrice,
     maxPrice |-> params.maxPrice]

RECURSIVE ReduceSumPrice(_)
ReduceSumPrice(allBooks) ==
    IF allBooks = <<>> THEN 0
    ELSE Head(allBooks).price + ReduceSumPrice(Tail(allBooks))

\* the three figures loadStats derives from the my-books answer
ComputeStats(allBooks) ==
    [totalBooks |-> Len(allBooks),
     totalValue |-> ReduceSumPrice(allBooks),
     categoriesCount |->
        Cardinality({allBooks[i].category : i \in 1..Len(allBooks)})]

\* the books the signed-in user's Dashboard works on come from requests of
\* any client
UiDtos == {DtoFull, DtoFree}

InitUI ==
    /\ books = <<>>
    /\ nextId = 0
    /\ now = 0
    /\ creator = <<>>
    /\ request = NoRequest
    /\ response = NoResponse
    /\ queryFilters = NoFilters
    /\ authUser \in {Some(u) : u \in Users}
    /\ filters = NoFilters
    /\ dashBooks = <<>>
    /\ stats = NoStats
    /\ uiEvent = NoEvent
    /\ users = <<>>
    /\ files = <<>>
    /\ nextGuid = 0
    /\ credential = None
    /\ storeBooks = <<>>
    /\ storeError = ""
    /\ inflight = <<>>
    /\ uploader = <<>>
    /\ location = <<>>

\* setFilters, then the [filters] effect: loadBooks with the new filters
DashLoadBooks(newFilters) ==
    LET dto == BindQuery(GetMyBooksParams(Some(newFilters)))
        r == GetMyBooksResult(books, Value(authUser), dto)
    IN  /\ filters' = newFilters
        /\ request' = Request("my-books", authUser, None, None, Some(dto))
        /\ response' = r.response
        /\ dashBooks' = r.response.body

DashHandleFilterChange(key, value) ==
    /\ authUser # None
    /\ DashLoadBooks([filters EXCEPT ![key] = OrUndefined(value)])
    /\ uiEvent' = [kind |-> "filter", key |-> key, value |-> value]
    /\ UNCHANGED <<books, nextId, now, creator, queryFilters, authUser, stats>>
    /\ UNCHANGED <<users, files, nextGuid, credential,
                   storeBooks, storeError, inflight, uploader, location>>

DashClearFilters ==
    /\ authUser # None
    /\ DashLoadBooks(NoFilters)
    /\ uiEvent' = [kind |-> "clear", key |-> "", value |-> None]
    /\ UNCHANGED <<books, nextId, now, creator, queryFilters, authUser, stats>>
    /\ UNCHANGED <<users, files, nextGuid, credential,
                   storeBooks, storeError, inflight, uploader, location>>

DashLoadStats ==
    /\ authUser # None
    /\ LET dto == BindQuery(GetMyBooksParams(None))
           r == GetMyBooksResult(books, Value(authUser), dto)
       IN  /\ request' = Request("my-books", authUser, None, None, Some(dto))
           /\ response' = r.response
           /\ stats' = ComputeStats(r.response.body)
    /\ uiEvent' = [kind |-> "loadStats", key |-> "", value |-> None]
    /\ UNCHANGED <<books, nextId, now, creator, queryFilters, authUser, filters,
                   dashBooks>>
    /\ UNCHANGED <<users, files, nextGuid, credential,
                   storeBooks, storeError, inflight, uploader, location>>

FilterKeys == {"search", "category", "minPrice", "maxPrice"}

NextUI ==
    \/ \E userId \in Users, dto \in UiDtos : CreateBook(userId, dto)
    \/ \E key \in FilterKeys : \E value \in FilterInputs(key) :
           DashHandleFilterChange(key, value)
    \/ DashClearFilters
    \/ DashLoadStats

SpecUI == InitUI /\ [][NextUI]_vars

(***************************************************************************)
(* Listing when the clock need not advance between two writes.  CreatedAt  *)
(* is DateTime.UtcNow at SaveChanges, so two books saved within one clock  *)
(* reading carry the same CreatedAt; ORDER BY "CreatedAt" DESC names no    *)
(* further key, and the database returns such rows in any order.           *)
(***************************************************************************)
\* every answer ORDER BY CreatedAt DESC can give for a set of rows
OrderByDescendingCreatedAtAnswers(rows) ==
    {list \in [1..Cardinality(rows) -> rows] :
        /\ \A i, j \in DOMAIN list : i # j => list[i] # list[j]
        /\ \A i, j \in DOMAIN list :
              i < j => list[i].createdAt >= list[j].createdAt}

Tick ==
    /\ now < MaxTime
    /\ now' = now + 1
    /\ UNCHANGED <<books, nextId, creator, request, response, queryFilters,
                   authUser, filters, dashBooks, stats, uiEvent>>
    /\ UNCHANGED <<users, files, nextGuid, credential,
                   storeBooks, storeError, inflight, uploader, location>>

CreateBookAtNow(userId, dto) ==
    /\ nextId < MaxBooks
    /\ LET r == CreateBookResult(books, nextId + 1, now, userId, dto)
       IN  /\ books' = r.books
           /\ response' = r.response
    /\ nextId' = nextId + 1
    /\ creator' = [i \in DOMAIN creator \cup {nextId + 1} |->
                      IF i = nextId + 1 THEN userId ELSE creator[i]]
    /\ request' = Request("create", Some(userId), Some(nextId + 1), Some(dto), None)
    /\ uiEvent' = NoEvent
    /\ UNCHANGED <<now, queryFilters, authUser, filters, dashBooks, stats>>
    /\ UNCHANGED <<users, files, nextGuid, credential,
                   storeBooks, storeError, inflight, uploader, location>>

UpdateBookAtNow(userId, id, dto) ==
    /\ LET r == UpdateBookResult(books, now, userId, id, dto)
       IN  /\ books' = r.books
           /\ response' = r.response
    /\ request' = Request("update", Some(userId), Some(id), Some(dto), None)
    /\ uiEvent' = NoEvent
    /\ UNCHANGED <<nextId, now, creator, queryFilters, authUser, filters,
                   dashBooks, stats>>
    /\ UNCHANGED <<users, files, nextGuid, credential,
                   storeBooks, storeError, inflight, uploader, location>>

GetAllBooksAnyPeerOrder ==
    /\ \E list \in OrderByDescendingCreatedAtAnswers(Rows(books)) :
           response' = Ok(SelectMapToDto(list))
    /\ request' = Request("list", None, None, None, Some(NoFilters))
    /\ uiEvent' = NoEvent
    /\ UNCHANGED <<books, nextId, now, creator, queryFilters, authUser, filters,
                   dashBooks, stats>>
    /\ UNCHANGED <<users, files, nextGuid, credential,
                   storeBooks, storeError, inflight, uploader, location>>

GetMyBooksAnyPeerOrder(userId) ==
    /\ \E list \in OrderByDescendingCreatedAtAnswers(
                       {b \in Rows(books) : b.userId = userId}) :
           response' = Ok(SelectMapToDto(list))
    /\ request' = Request("my-books", Some(userId), None, None, Some(NoFilters))
    /\ uiEvent' = NoEvent
    /\ UNCHANGED <<books, nextId, now, creator, queryFilters, authUser, filters,
                   dashBooks, stats>>
    /\ UNCHANGED <<users, files, nextGuid, credential,
                   storeBooks, storeError, inflight, uploader, location>>

NextOrder ==
    \/ Tick
    \/ \E userId \in Users, dto \in UiDtos : CreateBookAtNow(userId, dto)
    \/ \E userId \in Users, id \in BookIds, dto \in UiDtos :
           UpdateBookAtNow(userId, id, dto)
    \/ GetAllBooksAnyPeerOrder
    \/ \E userId \in Users : GetMyBooksAnyPeerOrder(userId)

SpecOrder == Init /\ [][NextOrder]_vars

(***************************************************************************)
(* AuthController: register and login.  The users table is the sequence of *)
(* its rows in the order they were inserted.  UserRepository and           *)
(* TokenService are modelled from their interfaces and the specification.  *)
(***************************************************************************)
\* the Guids User.Id takes, in the order they are drawn
UserIds == <<"u1", "u2">>

\* how long an issued token stays valid, in clock readings
TokenLifetime == 2

Emails == {<<"a">>, <<"A">>, <<"b">>}
Passwords == {"secret1", "wrong"}
Salts == {1, 2}

RegisterDtos == [email : Emails, password : Passwords, fullName : {"A"}]
LoginDtos == [email : Emails, password : Passwords]

\* BCrypt: the hash embeds the salt; Verify recomputes the hash of the
\* candidate under that salt and compares
HashPassword(password, salt) == [salt |-> salt, hashed |-> password]
Verify(password, passwordHash) ==
    HashPassword(password, passwordHash.salt) = passwordHash

\* mutant: the lookup compares the email as typed with the stored one
EmailExistsAsyncExact(usrs, email) ==
    \E i \in DOMAIN usrs : usrs[i].email = email

EmailExistsAsync(usrs, email) ==
    \E i \in DOMAIN usrs : ToLower(usrs[i].email) = ToLower(email)

GetByEmailAsync(usrs, email) ==
    IF EmailExistsAsync(usrs, email)
        THEN Some(usrs[CHOOSE i \in DOMAIN usrs :
                         ToLower(usrs[i].email) = ToLower(email)])
        ELSE None

\* Add + SaveChangesAsync; the unique index on Email refuses a second row
\* with the same stored email
UserCreateAsync(usrs, utcNow, user) ==
    IF \E i \in DOMAIN usrs : usrs[i].email = user.email
        THEN [users |-> usrs, entity |-> user, threw |-> TRUE]
        ELSE LET entity == [user EXCEPT !.createdAt = utcNow]
             IN  [users |-> Append(usrs, entity), entity |-> entity,
                  threw |-> FALSE]

JwtIssuer == "BookStoreAPI"
JwtAudience == "BookStoreClient"
SecretKey == "server-key"

GenerateToken(user, utcNow) ==
    [sub |-> user.id, email |-> user.email, exp |-> utcNow + TokenLifetime,
     iss |-> JwtIssuer, aud |-> JwtAudience, key |-> SecretKey]

UserDto(user) ==
    [id |-> user.id, email |-> user.email, fullName |-> user.fullName,
     createdAt |-> user.createdAt]

AuthResponseDto(user, utcNow) ==
    [token |-> GenerateToken(user, utcNow), user |-> UserDto(user)]

BadRequest(message) == [status |-> 400, message |-> message, body |-> <<>>]

\* mutant: the email is stored as it was typed
RegisterResultAsTyped(usrs, newId, utcNow, salt, registerDto) ==
    IF EmailExistsAsync(usrs, registerDto.email)
        THEN [users |-> usrs,
              response |-> BadRequest("User with this email already exists")]
        ELSE LET user == [id |-> newId,
                          email |-> registerDto.email,
                          passwordHash |-> HashPassword(registerDto.password, salt),
                          fullName |-> registerDto.fullName,
                          createdAt |-> utcNow]
             IN  [users |-> Append(usrs, user),
                  response |-> Ok(AuthResponseDto(user, utcNow))]

RegisterResult(usrs, newId, utcNow, salt, registerDto) ==
    IF EmailExistsAsync(usrs, registerDto.email)
        THEN [users |-> usrs,
              response |-> BadRequest("User with this email already exists")]
        ELSE LET user == [id |-> newId,
                          email |-> ToLower(registerDto.email),
                          passwordHash |-> HashPassword(registerDto.password, salt),
                          fullName |-> registerDto.fullName,
                          createdAt |-> utcNow]
                 c == UserCreateAsync(usrs, utcNow, user)
             IN  IF c.threw
                     THEN [users |-> usrs,
                           response |-> StatusCode500("An error occurred during registration")]
                     ELSE [users |-> c.users,
                           response |-> Ok(AuthResponseDto(c.entity, utcNow))]

\* mutant: the unknown email is told apart from the wrong password
LoginResultRevealing(usrs, utcNow, loginDto) ==
    LET user == GetByEmailAsync(usrs, loginDto.email)
    IN  IF user = None
            THEN [users |-> usrs, response |-> NotFound("User not found")]
        ELSE IF ~Verify(loginDto.password, Value(user).passwordHash)
            THEN [users |-> usrs, response |-> BadRequest("Invalid email or password")]
        ELSE [users |-> usrs, response |-> Ok(AuthResponseDto(Value(user), utcNow))]

LoginResult(usrs, utcNow, loginDto) ==
    LET user == GetByEmailAsync(usrs, loginDto.email)
    IN  IF user = None
            THEN [users |-> usrs, response |-> BadRequest("Invalid email or password")]
        ELSE IF ~Verify(loginDto.password, Value(user).passwordHash)
            THEN [users |-> usrs, response |-> BadRequest("Invalid email or password")]
        ELSE [users |-> usrs, response |-> Ok(AuthResponseDto(Value(user), utcNow))]

Register(registerDto) ==
    /\ EmailExistsAsync(users, registerDto.email) \/ Len(users) < Len(UserIds)
    /\ \E salt \in Salts :
          LET newId == IF Len(users) < Len(UserIds)
                           THEN UserIds[Len(users) + 1] ELSE "none"
              r == RegisterResult(users, newId, now, salt, registerDto)
          IN  /\ users' = r.users
              /\ response' = r.response
    /\ request' = Request("register", None, None, Some(registerDto), None)
    /\ uiEvent' = NoEvent
    /\ credential' = None
    /\ UNCHANGED <<storeBooks, storeError, inflight, uploader, location>>
    /\ UNCHANGED <<books, nextId, now, creator, queryFilters, authUser, filters,
                   dashBooks, stats, files, nextGuid>>

Login(loginDto) ==
    /\ LET r == LoginResult(users, now, loginDto)
       IN  /\ users' = r.users
           /\ response' = r.response
    /\ request' = Request("login", None, None, Some(loginDto), None)
    /\ uiEvent' = NoEvent
    /\ credential' = None
    /\ UNCHANGED <<storeBooks, storeError, inflight, uploader, location>>
    /\ UNCHANGED <<books, nextId, now, creator, queryFilters, authUser, filters,
                   dashBooks, stats, files, nextGuid>>

NextAuth ==
    \/ \E registerDto \in RegisterDtos : Register(registerDto)
    \/ \E loginDto \in LoginDtos : Login(loginDto)

SpecAuth == Init /\ [][NextAuth]_vars

(***************************************************************************)
(* FilesController.  A stored file is a path <<directory, file name>> with *)
(* its bytes; a file name is the sequence <<stem, stamp, extension>> the   *)
(* handler interpolates.  The clock reading is in seconds here.            *)
(***************************************************************************)
\* how many uploaded files the directories hold at once
MaxFiles == 1

allowedImageExtensions == {".jpg", ".jpeg", ".png", ".gif", ".webp"}
allowedBookExtensions == {".pdf", ".epub", ".docx", ".doc", ".txt", ".mobi", ".azw3"}
MaxImageSize == 5 * 1024 * 1024
MaxBookSize == 100 * 1024 * 1024

\* the Guids Guid.NewGuid() returns, in the order they are drawn
Guids == <<"g1", "g2">>

ToLowerInvariant(ext) ==
    CASE ext = ".JPG" -> ".jpg"
      [] ext = ".PDF" -> ".pdf"
      [] OTHER -> ext

\* Path.GetExtension of the client's file name <<base, extension>>
GetExtension(fileName) == fileName[2]

\* the IFormFile values: none, or name, length and bytes (the bytes vary
\* for the lengths a handler can accept)
FormFileShapes(maxSize) ==
    {[FileName |-> <<"upload", ext>>, Length |-> len, bytes |-> bytes] :
        ext \in {".JPG", ".pdf"}, len \in {0, maxSize, maxSize + 1},
        bytes \in {"x", "y"}}

FormFiles(maxSize) ==
    {None} \cup
    {Some(file) : file \in {shape \in FormFileShapes(maxSize) :
                               shape.Length = maxSize \/ shape.bytes = "x"}}

BookIdHints == {None, Some("b1")}

\* the file name "{bookId ?? Guid.NewGuid()}-{UtcNow:yyyyMMddHHmmss}{ext}"
UploadFileName(bookId, guid, utcNow, fileExtension) ==
    <<IF bookId # None THEN Value(bookId) ELSE guid, utcNow, fileExtension>>

\* new FileStream(filePath, FileMode.Create) + CopyToAsync: the file is
\* created, or truncated and rewritten when it exists
FileCreate(fls, filePath, bytes) ==
    [q \in DOMAIN fls \cup {filePath} |-> IF q = filePath THEN bytes ELSE fls[q]]

FileExists(fls, filePath) == filePath \in DOMAIN fls

FileDelete(fls, filePath) == [q \in DOMAIN fls \ {filePath} |-> fls[q]]

UploadOk(fileUrl, file) ==
    Ok([url |-> fileUrl, fileName |-> file.FileName, size |-> file.Length])

\* mutant: the extension is checked before the size
UploadImageResultExtensionFirst(fls, file, bookId, guid, utcNow) ==
    IF file = None \/ Value(file).Length = 0
        THEN [files |-> fls, response |-> BadRequest("No file provided")]
    ELSE IF ToLowerInvariant(GetExtension(Value(file).FileName))
                \notin allowedImageExtensions
        THEN [files |-> fls,
              response |-> BadRequest("Invalid file type. Only image files are allowed.")]
    ELSE IF Value(file).Length > MaxImageSize
        THEN [files |-> fls,
              response |-> BadRequest("File size exceeds maximum allowed size of 5MB")]
    ELSE LET fileExtension == ToLowerInvariant(GetExtension(Value(file).FileName))
             fileName == UploadFileName(bookId, guid, utcNow, fileExtension)
             filePath == <<"images", fileName>>
         IN  [files |-> FileCreate(fls, filePath, Value(file).bytes),
              response |-> UploadOk(filePath, Value(file))]

UploadImageResult(fls, file, bookId, guid, utcNow) ==
    IF file = None \/ Value(file).Length = 0
        THEN [files |-> fls, response |-> BadRequest("No file provided")]
    ELSE IF Value(file).Length > MaxImageSize
        THEN [files |-> fls,
              response |-> BadRequest("File size exceeds maximum allowed size of 5MB")]
    ELSE IF ToLowerInvariant(GetExtension(Value(file).FileName))
                \notin allowedImageExtensions
        THEN [files |-> fls,
              response |-> BadRequest("Invalid file type. Only image files are allowed.")]
    ELSE LET fileExtension == ToLowerInvariant(GetExtension(Value(file).FileName))
             fileName == UploadFileName(bookId, guid, utcNow, fileExtension)
             filePath == <<"images", fileName>>
         IN  [files |-> FileCreate(fls, filePath, Value(file).bytes),
              response |-> UploadOk(filePath, Value(file))]

\* mutant: the bytes are written before the extension is checked
UploadBookFileResultWriteFirst(fls, file, bookId, guid, utcNow) ==
    IF file = None \/ Value(file).Length = 0
        THEN [files |-> fls, response |-> BadRequest("No file provided")]
    ELSE IF Value(file).Length > MaxBookSize
        THEN [files |-> fls,
              response |-> BadRequest("File size exceeds maximum allowed size of 100MB")]
    ELSE LET fileExtension == ToLowerInvariant(GetExtension(Value(file).FileName))
             fileName == UploadFileName(bookId, guid, utcNow, fileExtension)
             filePath == <<"books", fileName>>
             written == FileCreate(fls, filePath, Value(file).bytes)
         IN  IF fileExtension \notin allowedBookExtensions
                 THEN [files |-> written,
                       response |-> BadRequest("Invalid file type. Only book files (PDF, EPUB, DOCX, etc.) are allowed.")]
                 ELSE [files |-> written,
                       response |-> UploadOk(filePath, Value(file))]

UploadBookFileResult(fls, file, bookId, guid, utcNow) ==
    IF file = None \/ Value(file).Length = 0
        THEN [files |-> fls, response |-> BadRequest("No file provided")]
    ELSE IF Value(file).Length > MaxBookSize
        THEN [files |-> fls,
              response |-> BadRequest("File size exceeds maximum allowed size of 100MB")]
    ELSE IF ToLowerInvariant(GetExtension(Value(file).FileName))
                \notin allowedBookExtensions
        THEN [files |-> fls,
              response |-> BadRequest("Invalid file type. Only book files (PDF, EPUB, DOCX, etc.) are allowed.")]
    ELSE LET fileExtension == ToLowerInvariant(GetExtension(Value(file).FileName))
             fileName == UploadFileName(bookId, guid, utcNow, fileExtension)
             filePath == <<"books", fileName>>
         IN  [files |-> FileCreate(fls, filePath, Value(file).bytes),
              response |-> UploadOk(filePath, Value(file))]

OkMessage(message) == [status |-> 200, message |-> message, body |-> <<>>]

\* mutant: a missing file is reported as a server error
DeleteFileResultThrowing(fls, fileName, fileType) ==
    IF fileType # "images" /\ fileType # "books"
        THEN [files |-> fls,
              response |-> BadRequest("Invalid file type. Must be 'images' or 'books'")]
    ELSE IF ~FileExists(fls, <<fileType, fileName>>)
        THEN [files |-> fls,
              response |-> StatusCode500("An error occurred while deleting the file")]
    ELSE [files |-> FileDelete(fls, <<fileType, fileName>>),
          response |-> OkMessage("File deleted successfully")]

DeleteFileResult(fls, fileName, fileType) ==
    IF fileType # "images" /\ fileType # "books"
        THEN [files |-> fls,
              response |-> BadRequest("Invalid file type. Must be 'images' or 'books'")]
    ELSE IF ~FileExists(fls, <<fileType, fileName>>)
        THEN [files |-> fls, response |-> NotFound("File not found")]
    ELSE [files |-> FileDelete(fls, <<fileType, fileName>>),
          response |-> OkMessage("File deleted successfully")]

\* the Guid the next Guid.NewGuid() returns
NewGuid == IF nextGuid < Len(Guids) THEN Guids[nextGuid + 1] ELSE "none"

\* what an upload does with the handler's result r
UploadWrites(op, userId, file, bookId, r) ==
    /\ Cardinality(DOMAIN r.files) <= MaxFiles
    /\ (r.response.status = 200 /\ bookId = None) => nextGuid < Len(Guids)
    /\ files' = r.files
    /\ response' = r.response
    /\ nextGuid' = IF r.response.status = 200 /\ bookId = None
                       THEN nextGuid + 1 ELSE nextGuid
    /\ request' = Request(op, Some(userId), None,
                          Some([file |-> file, bookId |-> bookId]), None)
    /\ uiEvent' = NoEvent
    /\ UNCHANGED <<books, nextId, now, creator, queryFilters, authUser, filters,
                   dashBooks, stats, users, credential,
                   storeBooks, storeError, inflight, location>>

UploadStep(op, userId, file, bookId, r) ==
    /\ UploadWrites(op, userId, file, bookId, r)
    /\ UNCHANGED uploader

UploadImage(userId, file, bookId) ==
    /\ userId \in Users
    /\ UploadStep("upload-image", userId, file, bookId,
                  UploadImageResult(files, file, bookId, NewGuid, now))

UploadBookFile(userId, file, bookId) ==
    /\ userId \in Users
    /\ UploadStep("upload-book", userId, file, bookId,
                  UploadBookFileResult(files, file, bookId, NewGuid, now))

\* mutant: a file is deleted for the user who uploaded it only
DeleteFileOwnFilesOnly(userId, fileName, fileType) ==
    /\ LET filePath == <<fileType, fileName>>
           r == IF filePath \in DOMAIN uploader /\ uploader[filePath] # userId
                    THEN [files |-> files, response |->
                            [status |-> 403, message |-> "Forbidden", body |-> <<>>]]
                    ELSE DeleteFileResult(files, fileName, fileType)
       IN  /\ files' = r.files
           /\ response' = r.response
    /\ request' = Request("delete-file", Some(userId), None,
                          Some([fileName |-> fileName, fileType |-> fileType]), None)
    /\ uiEvent' = NoEvent
    /\ UNCHANGED <<books, nextId, now, creator, queryFilters, authUser, filters,
                   dashBooks, stats, users, nextGuid, credential,
                   storeBooks, storeError, inflight, uploader, location>>

DeleteFile(userId, fileName, fileType) ==
    /\ LET r == DeleteFileResult(files, fileName, fileType)
       IN  /\ files' = r.files
           /\ response' = r.response
    /\ request' = Request("delete-file", Some(userId), None,
                          Some([fileName |-> fileName, fileType |-> fileType]), None)
    /\ uiEvent' = NoEvent
    /\ UNCHANGED <<books, nextId, now, creator, queryFilters, authUser, filters,
                   dashBooks, stats, users, nextGuid, credential,
                   storeBooks, storeError, inflight, uploader, location>>

\* the names a delete request asks for: of a stored file, the one just
\* asked for, or one that was never stored
DeleteFileNames ==
    {q[2] : q \in DOMAIN files}
        \cup (IF request.op = "delete-file" /\ request.dto # None
                 THEN {Value(request.dto).fileName} ELSE {})
        \cup {<<"b1", 0, ".txt">>}

FileTypes == {"images", "books", "covers"}

NextFiles ==
    \/ Tick
    \/ \E userId \in Users, file \in FormFiles(MaxImageSize), bookId \in BookIdHints :
           UploadImage(userId, file, bookId)
    \/ \E userId \in Users, file \in FormFiles(MaxBookSize), bookId \in BookIdHints :
           UploadBookFile(userId, file, bookId)
    \/ \E userId \in Users, fileName \in DeleteFileNames, fileType \in FileTypes :
           DeleteFile(userId, fileName, fileType)

SpecFiles == Init /\ [][NextFiles]_vars

(***************************************************************************)
(* The JWT bearer middleware in front of the controllers.  A request       *)
(* carries a credential: no Authorization header, or a bearer token.       *)
(***************************************************************************)
\* mutant: the lifetime check with a clock skew of one reading
ValidateTokenWithSkew(token, utcNow) ==
    /\ token.key = SecretKey
    /\ token.iss = JwtIssuer
    /\ token.aud = JwtAudience
    /\ ~(token.exp < utcNow - 1)

\* TokenValidationParameters: signing key, issuer, audience, and lifetime
\* with ClockSkew = TimeSpan.Zero (a token is expired once exp < now)
ValidateToken(token, utcNow) ==
    /\ token.key = SecretKey
    /\ token.iss = JwtIssuer
    /\ token.aud = JwtAudience
    /\ ~(token.exp < utcNow)

\* mutant: the subject of any token is taken as the identity
AuthenticateUnchecked(cred, utcNow) ==
    IF cred # None THEN Some(Value(cred).sub) ELSE None

\* the identity the [Authorize] endpoints see: the token's subject, or none
Authenticate(cred, utcNow) ==
    IF cred # None /\ ValidateToken(Value(cred), utcNow)
        THEN Some(Value(cred).sub) ELSE None

\* the challenge of the bearer scheme
Unauthorized == [status |-> 401, message |-> "", body |-> <<>>]

\* tokens issued at time 0 to the two users, and the same tokens signed
\* with another key or carrying another issuer or audience
IssuedTokens ==
    {GenerateToken([id |-> u, email |-> <<"a">>], 0) : u \in Users}
DefectiveTokens ==
    LET t == GenerateToken([id |-> "u1", email |-> <<"a">>], 0)
    IN  {[t EXCEPT !.key = "forged"], [t EXCEPT !.iss = "other"],
         [t EXCEPT !.aud = "other"]}
Credentials ==
    {None} \cup {Some(t) : t \in IssuedTokens \cup DefectiveTokens}

\* a request the middleware answers itself: nothing behind it runs
Challenge(op, cred) ==
    /\ Authenticate(cred, now) = None
    /\ response' = Unauthorized
    /\ request' = Request(op, None, None, None, None)
    /\ credential' = cred
    /\ UNCHANGED <<storeBooks, storeError, inflight, uploader, location>>
    /\ uiEvent' = NoEvent
    /\ UNCHANGED <<books, nextId, now, creator, queryFilters, authUser, filters,
                   dashBooks, stats, users, files, nextGuid>>

\* the frame of a request that reached a BooksController handler
BooksFrame(cred) ==
    /\ credential' = cred
    /\ UNCHANGED <<storeBooks, storeError, inflight, uploader, location>>
    /\ uiEvent' = NoEvent
    /\ UNCHANGED <<now, queryFilters, authUser, filters, dashBooks, stats,
                   users, files, nextGuid>>

\* the frame of a request that reached a FilesController handler
FilesFrame(cred) ==
    /\ credential' = cred
    /\ UNCHANGED <<storeBooks, storeError, inflight, uploader, location>>
    /\ uiEvent' = NoEvent
    /\ UNCHANGED <<books, nextId, now, creator, queryFilters, authUser, filters,
                   dashBooks, stats, users>>

(***************************************************************************)
(* One action per HTTP request through the middleware.  The [Authorize]    *)
(* endpoints are challenged without a valid token; the others run for any  *)
(* credential.  A handler reads the clock where the request arrives.       *)
(***************************************************************************)
CreateBookRequest(cred, dto) ==
    \/ Challenge("create", cred)
    \/ /\ Authenticate(cred, now) # None
       /\ nextId < MaxBooks
       /\ LET userId == Value(Authenticate(cred, now))
              r == CreateBookResult(books, nextId + 1, now, userId, dto)
          IN  /\ books' = r.books
              /\ response' = r.response
              /\ creator' = [i \in DOMAIN creator \cup {nextId + 1} |->
                                IF i = nextId + 1 THEN userId ELSE creator[i]]
              /\ request' = Request("create", Some(userId), Some(nextId + 1),
                                    Some(dto), None)
       /\ nextId' = nextId + 1
       /\ BooksFrame(cred)

UpdateBookRequest(cred, id, dto) ==
    \/ Challenge("update", cred)
    \/ /\ Authenticate(cred, now) # None
       /\ LET userId == Value(Authenticate(cred, now))
              r == UpdateBookResult(books, now, userId, id, dto)
          IN  /\ books' = r.books
              /\ response' = r.response
              /\ request' = Request("update", Some(userId), Some(id), Some(dto), None)
       /\ UNCHANGED <<nextId, creator>>
       /\ BooksFrame(cred)

DeleteBookRequest(cred, id) ==
    \/ Challenge("delete", cred)
    \/ /\ Authenticate(cred, now) # None
       /\ LET userId == Value(Authenticate(cred, now))
              r == DeleteBookResult(books, userId, id)
          IN  /\ books' = r.books
              /\ response' = r.response
              /\ request' = Request("delete", Some(userId), Some(id), None, None)
       /\ UNCHANGED <<nextId, creator>>
       /\ BooksFrame(cred)

GetMyBooksRequest(cred) ==
    \/ Challenge("my-books", cred)
    \/ /\ Authenticate(cred, now) # None
       /\ LET userId == Value(Authenticate(cred, now))
          IN  /\ response' = GetMyBooksResult(books, userId, NoFilters).response
              /\ request' = Request("my-books", Some(userId), None, None,
                                    Some(NoFilters))
       /\ UNCHANGED <<books, nextId, creator>>
       /\ BooksFrame(cred)

GetAllBooksRequest(cred) ==
    /\ response' = GetAllBooksResult(books, NoFilters).response
    /\ request' = Request("list", None, None, None, Some(NoFilters))
    /\ UNCHANGED <<books, nextId, creator>>
    /\ BooksFrame(cred)

GetBookRequest(cred, id) ==
    /\ response' = GetBookResult(books, id).response
    /\ request' = Request("get", None, Some(id), None, None)
    /\ UNCHANGED <<books, nextId, creator>>
    /\ BooksFrame(cred)

GetCategoriesRequest(cred) ==
    /\ response' = GetCategoriesResult(books).response
    /\ request' = Request("categories", None, None, None, None)
    /\ UNCHANGED <<books, nextId, creator>>
    /\ BooksFrame(cred)

\* what an upload that reached its handler does with the handler's result
UploadRequestStep(op, cred, file, bookId, r) ==
    /\ Cardinality(DOMAIN r.files) <= MaxFiles
    /\ (r.response.status = 200 /\ bookId = None) => nextGuid < Len(Guids)
    /\ files' = r.files
    /\ response' = r.response
    /\ nextGuid' = IF r.response.status = 200 /\ bookId = None
                       THEN nextGuid + 1 ELSE nextGuid
    /\ request' = Request(op, Authenticate(cred, now), None,
                          Some([file |-> file, bookId |-> bookId]), None)
    /\ FilesFrame(cred)

UploadImageRequest(cred, file, bookId) ==
    \/ Challenge("upload-image", cred)
    \/ /\ Authenticate(cred, now) # None
       /\ UploadRequestStep("upload-image", cred, file, bookId,
              UploadImageResult(files, file, bookId, NewGuid, now))

UploadBookFileRequest(cred, file, bookId) ==
    \/ Challenge("upload-book", cred)
    \/ /\ Authenticate(cred, now) # None
       /\ UploadRequestStep("upload-book", cred, file, bookId,
              UploadBookFileResult(files, file, bookId, NewGuid, now))

DeleteFileRequest(cred, fileName, fileType) ==
    \/ Challenge("delete-file", cred)
    \/ /\ Authenticate(cred, now) # None
       /\ LET r == DeleteFileResult(files, fileName, fileType)
          IN  /\ files' = r.files
              /\ response' = r.response
              /\ request' = Request("delete-file", Authenticate(cred, now), None,
                     Some([fileName |-> fileName, fileType |-> fileType]), None)
       /\ UNCHANGED nextGuid
       /\ FilesFrame(cred)

\* the request bodies sent through the middleware
GatewayDtos == {DtoFull}
GatewayImages ==
    {Some([FileName |-> <<"upload", ".JPG">>, Length |-> MaxImageSize, bytes |-> "x"])}
GatewayDocuments ==
    {Some([FileName |-> <<"upload", ".pdf">>, Length |-> MaxBookSize, bytes |-> "y"])}
GatewayHints == {Some("b1")}
GatewayFileNames == {q[2] : q \in DOMAIN files} \cup {<<"b1", 0, ".txt">>}

NextGateway ==
    \/ Tick
    \/ \E cred \in Credentials, dto \in GatewayDtos : CreateBookRequest(cred, dto)
    \/ \E cred \in Credentials, id \in BookIds, dto \in GatewayDtos :
           UpdateBookRequest(cred, id, dto)
    \/ \E cred \in Credentials, id \in BookIds : DeleteBookRequest(cred, id)
    \/ \E cred \in Credentials : GetMyBooksRequest(cred)
    \/ \E cred \in Credentials : GetAllBooksRequest(cred)
    \/ \E cred \in Credentials, id \in BookIds : GetBookRequest(cred, id)
    \/ \E cred \in Credentials : GetCategoriesRequest(cred)
    \/ \E cred \in Credentials, file \in GatewayImages, bookId \in GatewayHints :
           UploadImageRequest(cred, file, bookId)
    \/ \E cred \in Credentials, file \in GatewayDocuments, bookId \in GatewayHints :
           UploadBookFileRequest(cred, file, bookId)
    \/ \E cred \in Credentials, fileName \in GatewayFileNames,
          fileType \in {"images", "books"} :
           DeleteFileRequest(cred, fileName, fileType)

SpecGateway == Init /\ [][NextGateway]_vars

(***************************************************************************)
(* Model binding and validation of CreateBookDto / UpdateBookDto.  A JSON  *)
(* body gives each of the four required properties or leaves it out; a     *)
(* property left out keeps the initializer of the DTO class.               *)
(***************************************************************************)
Repeat(c, n) == [i \in 1..n |-> c]

JsonBase ==
    [name |-> Some(<<"A">>), category |-> Some(<<"F">>), price |-> Some(9990),
     description |-> Some(<<"a">>)]

\* prices are in thousandths: 99999990 is 99999.99
JsonBodies ==
    {JsonBase,
     [JsonBase EXCEPT !.name = None],
     [JsonBase EXCEPT !.category = None],
     [JsonBase EXCEPT !.price = None],
     [JsonBase EXCEPT !.description = None],
     [JsonBase EXCEPT !.price = Some(0)],
     [JsonBase EXCEPT !.price = Some(-1)],
     [JsonBase EXCEPT !.price = Some(99999990)],
     [JsonBase EXCEPT !.price = Some(99999991)],
     [JsonBase EXCEPT !.name = Some(Repeat("a", 255))],
     [JsonBase EXCEPT !.name = Some(Repeat("a", 256))],
     [JsonBase EXCEPT !.category = Some(Repeat("f", 100))],
     [JsonBase EXCEPT !.category = Some(Repeat("f", 101))],
     [JsonBase EXCEPT !.description = Some(Repeat("b", 1000))],
     [JsonBase EXCEPT !.description = Some(Repeat("b", 1001))]}

\* the DTO the JSON input formatter builds: string.Empty and default(decimal)
\* for the properties the body leaves out
BindBookDto(json) ==
    [name |-> IF json.name = None THEN <<>> ELSE Value(json.name),
     category |-> IF json.category = None THEN <<>> ELSE Value(json.category),
     price |-> IF json.price = None THEN 0 ELSE Value(json.price),
     description |-> IF json.description = None THEN <<>>
                     ELSE Value(json.description),
     imageUrl |-> None, fileUrl |-> None, fileName |-> None, fileSize |-> None]

\* [Required] on a string: not null and not empty
RequiredString(value) == value # <<>>

\* [Required] on the non-nullable decimal: the value is never null
RequiredDecimal(value) == TRUE

ModelStateIsValid(dto) ==
    /\ RequiredString(dto.name) /\ Len(dto.name) <= 255
    /\ RequiredString(dto.category) /\ Len(dto.category) <= 100
    /\ RequiredDecimal(dto.price) /\ dto.price >= 0 /\ dto.price <= 99999990
    /\ RequiredString(dto.description) /\ Len(dto.description) <= 1000

\* [ApiController]: an invalid model state is answered before the action runs
ValidationProblem ==
    [status |-> 400, message |-> "One or more validation errors occurred.",
     body |-> <<>>]

CreateBookBody(userId, json) ==
    /\ LET dto == BindBookDto(json)
       IN  IF ~ModelStateIsValid(dto)
               THEN /\ response' = ValidationProblem
                    /\ request' = Request("create", Some(userId), None, Some(json), None)
                    /\ UNCHANGED <<books, nextId, creator>>
               ELSE /\ nextId < MaxBooks
                    /\ LET r == CreateBookResult(books, nextId + 1, now, userId, dto)
                       IN  /\ books' = r.books
                           /\ response' = r.response
                    /\ nextId' = nextId + 1
                    /\ creator' = [i \in DOMAIN creator \cup {nextId + 1} |->
                                      IF i = nextId + 1 THEN userId ELSE creator[i]]
                    /\ request' = Request("create", Some(userId), Some(nextId + 1),
                                          Some(json), None)
    /\ uiEvent' = NoEvent
    /\ UNCHANGED <<now, queryFilters, authUser, filters, dashBooks, stats,
                   users, files, nextGuid, credential,
                   storeBooks, storeError, inflight, uploader, location>>

UpdateBookBody(userId, id, json) ==
    /\ LET dto == BindBookDto(json)
       IN  IF ~ModelStateIsValid(dto)
               THEN /\ response' = ValidationProblem
                    /\ books' = books
               ELSE LET r == UpdateBookResult(books, now, userId, id, dto)
                    IN  /\ books' = r.books
                        /\ response' = r.response
    /\ request' = Request("update", Some(userId), Some(id), Some(json), None)
    /\ uiEvent' = NoEvent
    /\ UNCHANGED <<nextId, now, creator, queryFilters, authUser, filters,
                   dashBooks, stats, users, files, nextGuid, credential,
                   storeBooks, storeError, inflight, uploader, location>>

NextValidation ==
    \/ \E userId \in Users, json \in JsonBodies : CreateBookBody(userId, json)
    \/ \E userId \in Users, id \in BookIds, json \in JsonBodies :
           UpdateBookBody(userId, id, json)

SpecValidation == Init /\ [][NextValidation]_vars

(***************************************************************************)
(* Claims about the endpoints, checked under Spec.                         *)
(***************************************************************************)
ReqUser == Value(request.userId)
ReqId == Value(request.id)
ReqDto == Value(request.dto)

Without(bks, id) == [i \in DOMAIN bks \ {id} |-> bks[i]]

Ids(list) == {list[i].id : i \in 1..Len(list)}

\* C1: every stored book's ownerId is the user whose create request made it:
\* a create answers with, and stores, the caller as owner, and no later
\* request (an update by anyone included) changes the owner of a stored book.
C1_OwnerIsCreator ==
    /\ \A id \in DOMAIN books : books[id].userId = creator[id]
    /\ request.op = "create" =>
          /\ response.body[1].userId = ReqUser
          /\ books[response.body[1].id].userId = ReqUser

\* C1 witness: a non-owner's update was refused on a book its owner had
\* updated before.
C1_Witness ==
    /\ request.op = "update" /\ response.status = 404
    /\ ReqId \in DOMAIN books
    /\ books[ReqId].userId # ReqUser
    /\ books[ReqId].updatedAt > books[ReqId].createdAt

\* C2: an update or delete of an existing book by a user who is not its
\* owner answers not-found and changes nothing: getById gives the same
\* record (updatedAt included) and listAll still lists the book.
C2_NonOwnerChangesNothing ==
    [][(/\ request'.op \in {"update", "delete"}
        /\ Value(request'.id) \in DOMAIN books
        /\ books[Value(request'.id)].userId # Value(request'.userId))
       => (/\ response'.status = 404
           /\ GetBookResult(books', Value(request'.id)).response
                = Ok(<<MapToDto(books[Value(request'.id)])>>)
           /\ Value(request'.id) \in Ids(GetAllAsync(books', NoFilters))
           /\ books' = books)]_vars

\* C2 witness: a refused update of another user's book.
C2_Witness ==
    /\ request.op = "update" /\ response.status = 404
    /\ ReqId \in DOMAIN books
    /\ books[ReqId].userId # ReqUser

\* C3: the answer to an update or delete of X by R is the same whether X
\* does not exist or exists and belongs to someone else: every answer to a
\* requester who does not own X is the one not-found answer of that
\* endpoint, and removing X from the table would not change it.
C3_SameOutcome ==
    /\ (request.op \in {"update", "delete"} /\ response.status # 0 /\
        ~(ReqId \in DOMAIN creator /\ creator[ReqId] = ReqUser))
          => response = NotFound(
                IF request.op = "update"
                    THEN "Book not found or you don't have permission to update it"
                    ELSE "Book not found or you don't have permission to delete it")
    /\ \A R \in Users, X \in DOMAIN books :
          books[X].userId # R =>
            /\ DeleteBookResult(books, R, X).response
                 = DeleteBookResult(Without(books, X), R, X).response
            /\ \A dto \in BookDtos :
                 UpdateBookResult(books, now + 1, R, X, dto).response
                  = UpdateBookResult(Without(books, X), now + 1, R, X, dto).response

\* C3 witness: a refused delete of another user's book.
C3_Witness ==
    /\ request.op = "delete" /\ response.status = 404
    /\ ReqId \in DOMAIN books
    /\ books[ReqId].userId # ReqUser

\* the eight mutable fields of a record equal those of a request body
SameMutableFields(b, dto) ==
    /\ b.name = dto.name
    /\ b.category = dto.category
    /\ b.price = dto.price
    /\ b.description = dto.description
    /\ b.imageUrl = dto.imageUrl
    /\ b.fileUrl = dto.fileUrl
    /\ b.fileName = dto.fileName
    /\ b.fileSize = dto.fileSize

\* C7: a successful update by the owner leaves a record whose eight mutable
\* fields are the request's values (an omitted optional field absent), with
\* updatedAt refreshed and id, ownerId, createdAt and every other book as
\* before; a getById that follows returns that record.
C7_UpdateOverwrites ==
    [][(request'.op = "update" /\ response'.status = 200)
       => LET id == Value(request'.id)
              got == GetBookResult(books', id).response
          IN  /\ got.status = 200
              /\ SameMutableFields(got.body[1], Value(request'.dto))
              /\ got.body[1].updatedAt > books[id].updatedAt
              /\ got.body[1].id = books[id].id
              /\ got.body[1].userId = books[id].userId
              /\ got.body[1].createdAt = books[id].createdAt
              /\ DOMAIN books' = DOMAIN books
              /\ \A other \in DOMAIN books \ {id} : books'[other] = books[other]]_vars

\* C8: after a create, getById of the returned id finds a book with that
\* id whose eight supplied fields are the request's values and whose
\* ownerId is the caller.
C8_CreateRoundTrip ==
    request.op = "create" =>
        LET got == GetBookResult(books, response.body[1].id).response
        IN  /\ response.status = 201
            /\ got.status = 200
            /\ got.body[1].id = response.body[1].id
            /\ got.body[1].userId = ReqUser
            /\ SameMutableFields(got.body[1], ReqDto)

\* C9: the owner's delete of a stored book answers no-content and the book
\* is then absent from listAll, listByOwner and getById; the same delete
\* repeated next answers not-found and changes nothing; an id that has been
\* handed out and is absent stays absent.
C9_DeleteTwice ==
    [][/\ (/\ request'.op = "delete"
           /\ Value(request'.id) \in DOMAIN books
           /\ books[Value(request'.id)].userId = Value(request'.userId))
          => (/\ response' = NoContent
              /\ Value(request'.id) \notin Ids(GetAllAsync(books', NoFilters))
              /\ Value(request'.id) \notin
                    Ids(GetByUserIdAsync(books', Value(request'.userId), NoFilters))
              /\ GetBookResult(books', Value(request'.id)).response.status = 404
              /\ books' = Without(books, Value(request'.id)))
       /\ (request.op = "delete" /\ response.status = 204 /\ request' = request)
          => (/\ response' = NotFound(
                    "Book not found or you don't have permission to delete it")
              /\ books' = books)
       /\ \A id \in 1..nextId : id \notin DOMAIN books => id \notin DOMAIN books'
      ]_vars

\* C9 witness: the owner's second delete of a book was answered not-found.
C9_Witness ==
    /\ request.op = "delete" /\ response.status = 404
    /\ ReqId \in DOMAIN creator
    /\ creator[ReqId] = ReqUser
    /\ ReqId \notin DOMAIN books

\* C11: whatever creates, updates and deletes came before, listCategories
\* answers with exactly the category values of the stored books of all
\* owners, each once (values differing only in case are distinct), in
\* ascending order; a category no stored book carries does not appear.
C11_CategoriesOfStoredBooks ==
    request.op = "categories" =>
        LET body == response.body
            stored == {books[i].category : i \in DOMAIN books}
        IN  /\ response.status = 200
            /\ {body[i] : i \in 1..Len(body)} = stored
            /\ Len(body) = Cardinality(stored)
            /\ \A i, j \in 1..Len(body) : i < j => StringLess(body[i], body[j])

\* C11 witness: two owners' books carry categories that differ only in
\* case and both are listed, the upper-case one first.
C11_Witness ==
    /\ request.op = "categories"
    /\ response.body = << <<"F">>, <<"f">> >>
    /\ \E i, j \in DOMAIN books : books[i].userId # books[j].userId

\* C11 second case: a category whose only book was deleted is gone.
C11_WitnessGone ==
    /\ request.op = "categories"
    /\ response.body = <<>>
    /\ nextId > 0

(***************************************************************************)
(* Claims about the listing queries, checked under SpecQuery.              *)
(***************************************************************************)
ReqFilters == Value(request.filters)

Elems(list) == {list[i] : i \in 1..Len(list)}

FilterFields == {"search", "category", "minPrice", "maxPrice"}

\* the predicate a filter stands for, field by field
Satisfies(b, f) ==
    /\ \/ f.search = None
       \/ Contains(ToLower(b.name), ToLower(Value(f.search)))
       \/ Contains(ToLower(b.description), ToLower(Value(f.search)))
    /\ f.category = None \/ b.category = Value(f.category)
    /\ f.minPrice = None \/ b.price >= Value(f.minPrice)
    /\ f.maxPrice = None \/ b.price <= Value(f.maxPrice)

\* C4: listAll(filter) returns exactly the stored books that satisfy every
\* field the filter sets, each once, and taking any one field out of the
\* filter gives a result that contains it.
C4_ListAllExact ==
    request.op = "list" =>
        /\ response.status = 200
        /\ Elems(response.body) =
              {MapToDto(b) : b \in {r \in Rows(books) : Satisfies(r, ReqFilters)}}
        /\ Len(response.body) = Cardinality(Elems(response.body))
        /\ \A field \in FilterFields :
              Elems(response.body) \subseteq
                Elems(GetAllBooksResult(
                        books, [ReqFilters EXCEPT ![field] = None]).response.body)

\* C4 witness: a listing under a filter with all four fields set that
\* returned some stored book and left another out.
C4_Witness ==
    /\ request.op = "list"
    /\ \A field \in FilterFields : ReqFilters[field] # None
    /\ response.body # <<>>
    /\ Len(response.body) < Cardinality(DOMAIN books)

\* the elements of a list that belong to one owner, in the list's order
RECURSIVE OwnedIn(_, _)
OwnedIn(list, userId) ==
    IF list = <<>> THEN <<>>
    ELSE IF Head(list).userId = userId
        THEN <<Head(list)>> \o OwnedIn(Tail(list), userId)
        ELSE OwnedIn(Tail(list), userId)

C5_ZeroPriceIsABound ==
    (/\ uiEvent.kind = "filter"
     /\ uiEvent.key \in {"minPrice", "maxPrice"}
     /\ uiEvent.value.t = "number"
     /\ uiEvent.value.v = 0)
    => /\ ReqFilters[uiEvent.key] = Some(0)
       /\ uiEvent.key = "maxPrice" =>
             \A i \in 1..Len(dashBooks) : dashBooks[i].price = 0

RECURSIVE SumOfPrices(_)
SumOfPrices(rows) ==
    IF rows = {} THEN 0
    ELSE LET r == CHOOSE x \in rows : TRUE
         IN  r.price + SumOfPrices(rows \ {r})

\* C10: the statistics loadStats computes for the signed-in owner are the
\* number of that owner's stored books (the length of listByOwner with no
\* filter), the sum of their prices and the number of distinct categories
\* among them, whatever other owners hold and whatever filters are active.
C10_StatsOfOwner ==
    uiEvent.kind = "loadStats" =>
        LET mine == {b \in Rows(books) : b.userId = Value(authUser)}
        IN  /\ stats.totalBooks = Cardinality(mine)
            /\ stats.totalBooks =
                  Len(GetByUserIdAsync(books, Value(authUser), NoFilters))
            /\ stats.totalValue = SumOfPrices(mine)
            /\ stats.categoriesCount = Cardinality({b.category : b \in mine})

\* C10 witness: statistics computed while another owner has a book and an
\* active filter hides one of the signed-in owner's books from the list.
C10_Witness ==
    /\ uiEvent.kind = "loadStats"
    /\ filters # NoFilters
    /\ stats.totalBooks > Len(dashBooks)
    /\ stats.totalValue > 0
    /\ \E b \in Rows(books) : b.userId # Value(authUser)

(***************************************************************************)
(* Claims about the order of listings, checked under SpecOrder.            *)
(***************************************************************************)
\* C12: listAll and listByOwner answer newest first: sorted by createdAt
\* descending, and books with equal createdAt in insertion order (ids are
\* handed out in insertion order).  The position then depends on createdAt
\* and id only, which no update changes.
C12_NewestFirstStable ==
    request.op \in {"list", "my-books"} =>
        \A i, j \in 1..Len(response.body) :
            i < j =>
                \/ response.body[i].createdAt > response.body[j].createdAt
                \/ /\ response.body[i].createdAt = response.body[j].createdAt
                   /\ response.body[i].id < response.body[j].id

\* the part of C12 that needs no tie: newest first
C12_NewestFirst ==
    request.op \in {"list", "my-books"} =>
        \A i, j \in 1..Len(response.body) :
            i < j => response.body[i].createdAt >= response.body[j].createdAt

(***************************************************************************)
(* Claims about register and login, checked under SpecAuth.                *)
(***************************************************************************)
SameEmailIgnoringCase(e1, e2) == ToLower(e1) = ToLower(e2)

\* C13: a register whose email equals, ignoring letter case, an email that
\* is already registered answers 400 "User with this email already exists"
\* and adds no user; stored emails are lower-cased, and in every state no
\* two users have the same case-folded email.
C13_RegisterDuplicateFails ==
    /\ [](\A i, j \in DOMAIN users :
            /\ users[i].email = ToLower(users[i].email)
            /\ i # j => ~SameEmailIgnoringCase(users[i].email, users[j].email))
    /\ [][(/\ request'.op = "register"
           /\ \E i \in DOMAIN users :
                 SameEmailIgnoringCase(users[i].email, Value(request'.dto).email))
          => /\ response'.status = 400
             /\ response'.message = "User with this email already exists"
             /\ users' = users]_vars

\* C13 witness: an email registered in lower case, then register with the
\* same email in upper case was refused, with room left in the table.
C13_Witness ==
    /\ request.op = "register"
    /\ response.status = 400
    /\ Len(users) = 1
    /\ users[1].email # ReqDto.email
    /\ SameEmailIgnoringCase(users[1].email, ReqDto.email)

\* the outcomes login has to keep indistinguishable
UnknownEmail(email) ==
    \A i \in DOMAIN users : ~SameEmailIgnoringCase(users[i].email, email)
WrongPassword(email, password) ==
    \E i \in DOMAIN users :
        /\ SameEmailIgnoringCase(users[i].email, email)
        /\ users[i].passwordHash.hashed # password

\* C14: login answers with one and the same response, status 400 and the
\* message "Invalid email or password" and nothing else, when the email is
\* unknown and when the email is registered and the password is wrong.
C14_LoginFailureUniform ==
    (/\ request.op = "login"
     /\ \/ UnknownEmail(ReqDto.email)
        \/ WrongPassword(ReqDto.email, ReqDto.password))
    => response = [status |-> 400, message |-> "Invalid email or password",
                   body |-> <<>>]

\* C14 witness: with one email registered, a login with that email and a
\* wrong password was refused.
C14_Witness ==
    /\ request.op = "login"
    /\ response.status = 400
    /\ WrongPassword(ReqDto.email, ReqDto.password)
    /\ \E e \in Emails : UnknownEmail(e)

\* C14 second case: with one email registered, a login with an unknown
\* email was refused.
C14_WitnessUnknown ==
    /\ request.op = "login"
    /\ response.status = 400
    /\ UnknownEmail(ReqDto.email)
    /\ users # <<>>

(***************************************************************************)
(* Claims about uploads, checked under SpecFiles.                          *)
(***************************************************************************)
ReqFile == Value(ReqDto.file)

\* the request is an upload; cap and allowList are those of its kind
IsUpload == request.op \in {"upload-image", "upload-book"}
Cap == IF request.op = "upload-image" THEN 5 * 1024 * 1024 ELSE 100 * 1024 * 1024
AllowList ==
    IF request.op = "upload-image"
        THEN {".jpg", ".jpeg", ".png", ".gif", ".webp"}
        ELSE {".pdf", ".epub", ".docx", ".doc", ".txt", ".mobi", ".azw3"}
Empty == ReqDto.file = None \/ ReqFile.Length = 0
Oversize == ~Empty /\ ReqFile.Length > Cap
BadExtension ==
    ~Empty /\ \A ext \in AllowList :
                 ext # ReqFile.FileName[2] /\ ext # ToLowerInvariant(ReqFile.FileName[2])
SizeMessage ==
    IF request.op = "upload-image"
        THEN "File size exceeds maximum allowed size of 5MB"
        ELSE "File size exceeds maximum allowed size of 100MB"
TypeMessage ==
    IF request.op = "upload-image"
        THEN "Invalid file type. Only image files are allowed."
        ELSE "Invalid file type. Only book files (PDF, EPUB, DOCX, etc.) are allowed."

\* C17: for both upload kinds the first failing check, in the order empty
\* payload, size cap (5 MiB images, 100 MiB documents), extension
\* allow-list, decides the error: empty is "no file" whatever the
\* extension, oversize is reported as oversize whatever the extension, and
\* a file of exactly the cap with an allowed extension is accepted.
C17_FirstFailingCheck ==
    IsUpload =>
        /\ Empty => response = BadRequest("No file provided")
        /\ Oversize => response = BadRequest(SizeMessage)
        /\ (~Empty /\ ~Oversize /\ BadExtension) => response = BadRequest(TypeMessage)
        /\ (~Empty /\ ~Oversize /\ ~BadExtension) => response.status = 200

\* C17 witness: an image of cap + 1 bytes with a disallowed extension was
\* reported as oversize.
C17_Witness ==
    /\ request.op = "upload-image"
    /\ ReqDto.file # None
    /\ ReqFile.Length = 5 * 1024 * 1024 + 1
    /\ ReqFile.FileName[2] = ".pdf"
    /\ response.message = "File size exceeds maximum allowed size of 5MB"

\* C17 boundary: a document of exactly 100 MiB was accepted.
C17_WitnessAtCap ==
    /\ request.op = "upload-book"
    /\ ReqDto.file # None
    /\ ReqFile.Length = 100 * 1024 * 1024
    /\ response.status = 200

\* C18: an upload rejected because it is empty, over its kind's cap or of
\* an extension outside its kind's allow-list leaves the stored files and
\* their bytes as they were.
C18_RejectedUploadWritesNothing ==
    [][(IsUpload' /\ (Empty' \/ Oversize' \/ BadExtension'))
          => /\ response'.status = 400
             /\ files' = files]_vars

\* C18 witness: with a file stored under the hint b1 in this second, an
\* upload with the same hint was rejected for its extension.
C18_Witness ==
    /\ IsUpload
    /\ BadExtension /\ ~Oversize
    /\ response.status = 400
    /\ ReqDto.bookId = Some("b1")
    /\ \E q \in DOMAIN files : q[2][1] = "b1" /\ q[2][2] = now

\* C19: a successful upload is stored under a name no stored file has, so
\* no upload overwrites another and every URL handed out keeps serving the
\* bytes uploaded for it, also for uploads with the same book id hint and
\* extension within one second.  (The clock stands still during an upload
\* step; that tells it from the passing of time after one.)
C19_UploadNamesAreFresh ==
    [][(IsUpload' /\ response'.status = 200 /\ now' = now)
          => response'.body.url \notin DOMAIN files]_vars

\* C20: deleteUpload of a stored file answers success and removes exactly
\* that file; deleteUpload of a name that is not stored, as every repeat of
\* a successful delete is, answers 404 "File not found" and removes
\* nothing.
C20_DeleteUploadTwice ==
    [][(/\ request'.op = "delete-file"
        /\ Value(request'.dto).fileType \in {"images", "books"}
        /\ now' = now)
          => LET filePath == <<Value(request'.dto).fileType,
                               Value(request'.dto).fileName>>
             IN  IF filePath \in DOMAIN files
                     THEN /\ response'.status = 200
                          /\ DOMAIN files' = DOMAIN files \ {filePath}
                          /\ \A q \in DOMAIN files' : files'[q] = files[q]
                     ELSE /\ response'.status = 404
                          /\ response'.message = "File not found"
                          /\ files' = files]_vars

\* C20 witness: the delete of a name an upload was stored under, and that
\* is stored no more, answered not-found.
C20_Witness ==
    /\ request.op = "delete-file"
    /\ ReqDto.fileType \in {"images", "books"}
    /\ ReqDto.fileName # <<"b1", 0, ".txt">>
    /\ response.status = 404
    /\ files = <<>>

(***************************************************************************)
(* Claims about authentication, checked under SpecGateway.                 *)
(***************************************************************************)
ProtectedOps ==
    {"create", "update", "delete", "my-books", "upload-image", "upload-book",
     "delete-file"}

\* the token is missing, or forged, or mislabelled, or past its expiry
NoValidToken(cred, time) ==
    \/ cred = None
    \/ Value(cred).key # "server-key"
    \/ Value(cred).iss # "BookStoreAPI"
    \/ Value(cred).aud # "BookStoreClient"
    \/ time > Value(cred).exp

\* C15: create, update, delete, list-my-books, both uploads and delete-upload
\* sent without a token or with an invalid or expired one all get the same
\* 401 answer and change no book and no stored file; list-all, get-by-id
\* and list-categories answer whatever the credential, with the books of
\* every owner.  (The clock stands still during a request step.)
C15_ProtectedNeedToken ==
    /\ [][(/\ request'.op \in ProtectedOps
           /\ now' = now
           /\ NoValidToken(credential', now))
          => /\ response' = [status |-> 401, message |-> "", body |-> <<>>]
             /\ books' = books
             /\ files' = files]_vars
    /\ [](/\ request.op = "list" =>
              /\ response.status = 200
              /\ Ids(response.body) = DOMAIN books
          /\ request.op = "get" =>
              IF ReqId \in DOMAIN books
                  THEN response.status = 200 /\ response.body[1].id = ReqId
                  ELSE response.status = 404
          /\ request.op = "categories" =>
              /\ response.status = 200
              /\ {response.body[i] : i \in 1..Len(response.body)}
                    = {books[i].category : i \in DOMAIN books})

\* C15 witness: with a book and a file stored, a delete-upload carrying an
\* expired token was answered 401.
C15_Witness ==
    /\ request.op = "delete-file"
    /\ response.status = 401
    /\ credential # None
    /\ Value(credential).key = "server-key"
    /\ Value(credential).exp < now
    /\ books # <<>>
    /\ files # <<>>

\* C15 second case: an anonymous list-all answered with the books of two
\* owners.
C15_WitnessPublic ==
    /\ request.op = "list"
    /\ credential = None
    /\ \E i, j \in 1..Len(response.body) :
          response.body[i].userId # response.body[j].userId

\* C16: a protected endpoint accepts a token only while the clock has not
\* passed its expiry and only with the right signature, issuer and
\* audience: any request one reading after the expiry, or with a forged
\* or mislabelled token at any time, is answered 401.
C16_TokenAcceptedUntilExpiry ==
    [][(/\ request'.op \in ProtectedOps
        /\ now' = now
        /\ credential' # None
        /\ response'.status # 401)
          => /\ now <= Value(credential').exp
             /\ Value(credential').key = "server-key"
             /\ Value(credential').iss = "BookStoreAPI"
             /\ Value(credential').aud = "BookStoreClient"]_vars

\* C16 witness: a token presented exactly at its expiry was accepted.
C16_Witness ==
    /\ request.op \in ProtectedOps
    /\ credential # None
    /\ now = Value(credential).exp
    /\ response.status \in {200, 201}

\* C16 second case: the same token one reading later was rejected.
C16_WitnessExpired ==
    /\ request.op \in ProtectedOps
    /\ credential # None
    /\ Value(credential).key = "server-key"
    /\ Value(credential).iss = "BookStoreAPI"
    /\ Value(credential).aud = "BookStoreClient"
    /\ now = Value(credential).exp + 1
    /\ response.status = 401

(***************************************************************************)
(* Claims about request validation, checked under SpecValidation.          *)
(***************************************************************************)
\* what the claim calls invalid in a create or update body
MissingRequired(json) ==
    \/ json.name = None \/ json.category = None
    \/ json.price = None \/ json.description = None
PriceOutOfRange(json) ==
    json.price # None /\ (Value(json.price) < 0 \/ Value(json.price) > 99999990)
TooLong(json) ==
    \/ json.name # None /\ Len(Value(json.name)) > 255
    \/ json.category # None /\ Len(Value(json.category)) > 100
    \/ json.description # None /\ Len(Value(json.description)) > 1000

\* C21: a create or update whose body misses a required field, has a price
\* outside [0, 99999.99] or a name, category or description longer than
\* 255, 100 or 1000 characters is answered with a validation error and the
\* catalog is unchanged; a create with price 0 or 99999.99 is accepted.
C21_InvalidBodyRejected ==
    [][request'.op \in {"create", "update"} =>
          LET json == Value(request'.dto)
          IN  /\ (MissingRequired(json) \/ PriceOutOfRange(json) \/ TooLong(json))
                    => /\ response'.status = 400
                       /\ books' = books
              /\ (/\ request'.op = "create"
                  /\ json.price \in {Some(0), Some(99999990)})
                    => response'.status = 201]_vars

\* C21 without the missing price: the part of the claim the code keeps
C21_InvalidBodyRejectedButPrice ==
    [][request'.op \in {"create", "update"} =>
          LET json == Value(request'.dto)
          IN  /\ (\/ json.name = None \/ json.category = None
                  \/ json.description = None
                  \/ PriceOutOfRange(json) \/ TooLong(json))
                    => /\ response'.status = 400
                       /\ books' = books
              /\ (/\ request'.op = "create"
                  /\ json.price \in {Some(0), Some(99999990)})
                    => response'.status = 201]_vars

(***************************************************************************)
(* The Store page.  It lists the books of every author through the public  *)
(* list request; a request that gets no answer makes getAllBooks throw.    *)
(***************************************************************************)
\* the request got no answer: axios rejects and getAllBooks rethrows
NetworkFailure == [status |-> 0, message |-> "Failed to fetch books", body |-> <<>>]

ConnectionError ==
    "Unable to connect to server. Please check if the backend is running."

\* whether the identifier `response` that loadBooks and loadCategories read
\* is bound where they read it: Store declares booksData, categoriesData and
\* its state, and imports no such name, so reading it is a ReferenceError
ResponseInScope == FALSE

\* the URLSearchParams ApiService.getAllBooks builds
GetAllBooksParams(filtersArg) == GetMyBooksParams(filtersArg)

\* loadBooks, given what the list request was answered: the books and error
\* states it leaves
StoreLoadBooksResult(answer) ==
    IF answer.status # 200 \/ ~ResponseInScope
        THEN [books |-> <<>>, error |-> ConnectionError]
        ELSE [books |-> answer.body, error |-> ""]

\* loadCategories, given the error state it starts from
StoreLoadCategoriesResult(answer, error) ==
    IF answer.status # 200 \/ ~ResponseInScope
        THEN ConnectionError
        ELSE error

\* setFilters, then the [filters] effect: loadBooks with the new filters;
\* the backend answers, or the request fails
StoreLoadBooks(newFilters, reachable) ==
    LET dto == BindQuery(GetAllBooksParams(Some(newFilters)))
        answer == IF reachable THEN GetAllBooksResult(books, dto).response
                               ELSE NetworkFailure
        r == StoreLoadBooksResult(answer)
    IN  /\ filters' = newFilters
        /\ request' = Request("list", None, None, None, Some(dto))
        /\ response' = answer
        /\ storeBooks' = r.books
        /\ storeError' = r.error

StoreHandleFilterChange(key, value, reachable) ==
    /\ StoreLoadBooks([filters EXCEPT ![key] = OrUndefined(value)], reachable)
    /\ uiEvent' = [kind |-> "filter", key |-> key, value |-> value]
    /\ UNCHANGED <<books, nextId, now, creator, queryFilters, authUser,
                   dashBooks, stats>>
    /\ UNCHANGED <<users, files, nextGuid, credential, inflight, uploader,
                   location>>

StoreClearFilters(reachable) ==
    /\ StoreLoadBooks(NoFilters, reachable)
    /\ uiEvent' = [kind |-> "clear", key |-> "", value |-> None]
    /\ UNCHANGED <<books, nextId, now, creator, queryFilters, authUser,
                   dashBooks, stats>>
    /\ UNCHANGED <<users, files, nextGuid, credential, inflight, uploader,
                   location>>

\* the mount effect: loadBooks and loadCategories, the books request last
\* answered being the one on record
StoreLoadInitialData(reachable) ==
    LET dto == BindQuery(GetAllBooksParams(Some(filters)))
        answer == IF reachable THEN GetAllBooksResult(books, dto).response
                               ELSE NetworkFailure
        categories == IF reachable THEN GetCategoriesResult(books).response
                                   ELSE NetworkFailure
        r == StoreLoadBooksResult(answer)
    IN  /\ request' = Request("list", None, None, None, Some(dto))
        /\ response' = answer
        /\ storeBooks' = r.books
        /\ storeError' = StoreLoadCategoriesResult(categories, r.error)
        /\ uiEvent' = [kind |-> "mount", key |-> "", value |-> None]
        /\ UNCHANGED <<books, nextId, now, creator, queryFilters, authUser,
                       filters, dashBooks, stats>>
        /\ UNCHANGED <<users, files, nextGuid, credential, inflight, uploader,
                       location>>

NextStore ==
    \/ \E userId \in Users, dto \in UiDtos : CreateBook(userId, dto)
    \/ \E reachable \in BOOLEAN : StoreLoadInitialData(reachable)
    \/ \E key \in FilterKeys : \E value \in FilterInputs(key) :
           \E reachable \in BOOLEAN :
               StoreHandleFilterChange(key, value, reachable)
    \/ \E reachable \in BOOLEAN : StoreClearFilters(reachable)

SpecStore == Init /\ [][NextStore]_vars

\* C22: whenever the backend answers the public list request successfully
\* the Store displays exactly the returned books and no error, and it shows
\* the empty list with the connection error only when the request failed.
C22_StoreShowsAnswer ==
    [][uiEvent'.kind \in {"mount", "filter", "clear"}
         => /\ response'.status = 200
                => /\ storeBooks' = response'.body
                   /\ storeError' = ""
            /\ storeError' = ConnectionError => response'.status # 200]_vars

(***************************************************************************)
(* Requests that overlap.  Kestrel serves each request on its own scoped   *)
(* BookStoreContext; the awaits of a handler are the points where another  *)
(* request's database call can come in between.  An update is ExistsAsync, *)
(* GetByIdAsync and UpdateAsync's SaveChanges; a delete is DeleteAsync's    *)
(* FirstOrDefaultAsync and its SaveChanges.                                 *)
(***************************************************************************)
\* how many requests one behaviour lets overlap
MaxInflight == 2

\* two request bodies that differ in each of the eight fields an update sets
RaceDtos == {DtoFull, DtoBare}

MutableFields ==
    {"name", "category", "price", "description", "imageUrl", "fileUrl",
     "fileName", "fileSize"}

\* a request that arrived: where its handler stands, the entity its context
\* tracks, and its answer once it has one
Handler(op, userId, id, dto) ==
    [op |-> op, userId |-> userId, id |-> id, dto |-> dto,
     pc |-> IF op = "update" THEN "ExistsAsync" ELSE "FirstOrDefaultAsync",
     entity |-> None, response |-> NoResponse]

Finish(h, answer) == [h EXCEPT !.pc = "done", !.response = answer]

\* Remove + SaveChangesAsync for the entity the context tracks: the DELETE of
\* a row that is gone affects no row and SaveChangesAsync throws
RemoveAndSave(bks, book) ==
    IF book.id \in DOMAIN bks
        THEN [books |-> [i \in DOMAIN bks \ {book.id} |-> bks[i]], threw |-> FALSE]
        ELSE [books |-> bks, threw |-> TRUE]

\* the handler's next database call and what follows it up to the next await
\* on the database: the handler after the step, and the table after it
HandlerStep(h, bks, utcNow) ==
    CASE h.pc = "ExistsAsync" ->
           IF ~ExistsAsync(bks, h.id, h.userId)
               THEN [handler |-> Finish(h, NotFound(
                        "Book not found or you don't have permission to update it")),
                     books |-> bks]
               ELSE [handler |-> [h EXCEPT !.pc = "GetByIdAsync"], books |-> bks]
      [] h.pc = "GetByIdAsync" ->
           LET existingBook == GetByIdAsync(bks, h.id)
           IN  IF existingBook = None
                   THEN [handler |-> Finish(h, NotFound("Book not found")),
                         books |-> bks]
                   ELSE [handler |->
                            [h EXCEPT !.pc = "UpdateAsync",
                                      !.entity = Some(AssignUpdate(
                                          Value(existingBook), Value(h.dto)))],
                         books |-> bks]
      [] h.pc = "UpdateAsync" ->
           LET updated == UpdateAsync(bks, utcNow, Value(h.entity))
           IN  IF updated.threw
                   THEN [handler |-> Finish(h, StatusCode500(
                            "An error occurred while updating the book")),
                         books |-> bks]
                   ELSE [handler |-> Finish([h EXCEPT !.entity = Some(updated.entity)],
                                            Ok(<<MapToDto(updated.entity)>>)),
                         books |-> updated.books]
      [] h.pc = "FirstOrDefaultAsync" ->
           IF ~ExistsAsync(bks, h.id, h.userId)
               THEN [handler |-> Finish(h, NotFound(
                        "Book not found or you don't have permission to delete it")),
                     books |-> bks]
               ELSE [handler |-> [h EXCEPT !.pc = "SaveChangesAsync",
                                           !.entity = Some(bks[h.id])],
                     books |-> bks]
      [] h.pc = "SaveChangesAsync" ->
           LET removed == RemoveAndSave(bks, Value(h.entity))
           IN  IF removed.threw
                   THEN [handler |-> Finish(h, StatusCode500(
                            "An error occurred while deleting the book")),
                         books |-> bks]
                   ELSE [handler |-> Finish(h, NoContent), books |-> removed.books]

\* a request arrives
Arrive(h) ==
    /\ Len(inflight) < MaxInflight
    /\ inflight' = Append(inflight, h)
    /\ uiEvent' = [kind |-> "arrive", key |-> h.op, value |-> Some(Len(inflight) + 1)]
    /\ UNCHANGED <<books, nextId, now, creator, request, response, queryFilters,
                   authUser, filters, dashBooks, stats>>
    /\ UNCHANGED <<users, files, nextGuid, credential, storeBooks, storeError,
                   uploader, location>>

UpdateBookArrives(userId, id, dto) ==
    /\ id \in 1..nextId
    /\ Arrive(Handler("update", userId, id, Some(dto)))

DeleteBookArrives(userId, id) ==
    /\ id \in 1..nextId
    /\ Arrive(Handler("delete", userId, id, None))

\* the handler of request p runs up to its next await
Proceed(p) ==
    /\ p \in DOMAIN inflight
    /\ inflight[p].pc # "done"
    /\ LET r == HandlerStep(inflight[p], books, now)
       IN  /\ inflight' = [inflight EXCEPT ![p] = r.handler]
           /\ books' = r.books
           /\ IF r.handler.pc = "done"
                  THEN /\ request' = Request(r.handler.op, Some(r.handler.userId),
                                             Some(r.handler.id), r.handler.dto, None)
                       /\ response' = r.handler.response
                  ELSE UNCHANGED <<request, response>>
    /\ uiEvent' = [kind |-> "proceed", key |-> inflight[p].pc, value |-> Some(p)]
    /\ UNCHANGED <<nextId, now, creator, queryFilters, authUser, filters,
                   dashBooks, stats>>
    /\ UNCHANGED <<users, files, nextGuid, credential, storeBooks, storeError,
                   uploader, location>>

NextRace ==
    \/ \E userId \in Users, dto \in UiDtos : CreateBook(userId, dto)
    \/ Tick
    \/ \E userId \in Users, id \in BookIds, dto \in RaceDtos :
           UpdateBookArrives(userId, id, dto)
    \/ \E userId \in Users, id \in BookIds : DeleteBookArrives(userId, id)
    \/ \E p \in 1..MaxInflight : Proceed(p)

SpecRace == Init /\ [][NextRace]_vars

\* the requests on record that are updates of book id by userId
UpdatesOf(id, userId) ==
    {p \in DOMAIN inflight :
        /\ inflight[p].op = "update"
        /\ inflight[p].id = id
        /\ inflight[p].userId = userId}

DeletesOf(id) ==
    {p \in DOMAIN inflight : inflight[p].op = "delete" /\ inflight[p].id = id}

\* the eight fields of the stored row are those of the body request p sent
WroteAll(p, row) ==
    \A f \in MutableFields : row[f] = Value(inflight[p].dto)[f]

\* C23: updates of one book by its owner that overlap, in whatever order
\* their ExistsAsync, GetByIdAsync and UpdateAsync steps interleave, all
\* succeed; the stored row's eight mutable fields are then entirely those
\* of one request, the one that wrote last, never a mixture; and no step
\* changes the row's id, owner or createdAt.
C23_LastWriteWins ==
    /\ [](\A id \in DOMAIN books :
            DeletesOf(id) = {} =>
                LET mine == UpdatesOf(id, creator[id])
                    done == {p \in mine : inflight[p].pc = "done"}
                IN  /\ \A p \in done : inflight[p].response.status = 200
                    /\ done # {} => \E p \in done : WroteAll(p, books[id]))
    /\ [][/\ \A id \in DOMAIN books \cap DOMAIN books' :
                /\ books'[id].id = books[id].id
                /\ books'[id].userId = books[id].userId
                /\ books'[id].createdAt = books[id].createdAt
          /\ (/\ uiEvent'.kind = "proceed"
              /\ uiEvent'.key = "UpdateAsync"
              /\ response'.status = 200)
                => WroteAll(Value(uiEvent.value), books[request.id[1]])']_vars

\* two updates of one book by its owner with different bodies, the second
\* arriving and finishing while the first is in flight; the first wrote last
C23_Witness ==
    /\ Len(inflight) = 2
    /\ \E id \in DOMAIN books :
          /\ UpdatesOf(id, creator[id]) = {1, 2}
          /\ inflight[1].dto # inflight[2].dto
          /\ inflight[1].pc = "done" /\ inflight[2].pc = "done"
          /\ inflight[1].response.status = 200
          /\ inflight[2].response.status = 200
          /\ uiEvent.kind = "proceed" /\ uiEvent.value = Some(1)
          /\ WroteAll(1, books[id])
          /\ ~WroteAll(2, books[id])

\* the requests on record for book id have all been answered
AllAnswered(id) ==
    \A p \in DOMAIN inflight : inflight[p].id = id => inflight[p].pc = "done"

\* C24: a delete by the owner that takes effect between an update's
\* ExistsAsync, GetByIdAsync and UpdateAsync is benign: no update is
\* answered 200 for a book that is gone, a deleted book never comes back,
\* and once the requests are answered the book is absent from get-by-id and
\* from the list of all books.
C24_DeleteDuringUpdate ==
    /\ [](\A p \in DOMAIN inflight :
            (/\ inflight[p].op = "delete"
             /\ inflight[p].response.status = 204
             /\ AllAnswered(inflight[p].id))
               => /\ GetBookResult(books, inflight[p].id).response.status = 404
                  /\ \A b \in Rows(books) : b.id # inflight[p].id
                  /\ LET list == GetAllBooksResult(books, NoFilters).response.body
                     IN  \A i \in DOMAIN list : list[i].id # inflight[p].id)
    /\ [][/\ \A id \in 1..nextId : id \notin DOMAIN books => id \notin DOMAIN books'
          /\ (/\ uiEvent'.kind = "proceed"
              /\ request'.op = "update"
              /\ inflight'[Value(uiEvent'.value)].pc = "done"
              /\ response'.status = 200)
                => Value(request'.id) \in DOMAIN books']_vars

\* the delete took effect after the update's GetByIdAsync and before its
\* UpdateAsync: the update is answered 500 and the book stays deleted
C24_Witness ==
    \E p, q \in DOMAIN inflight :
        /\ inflight[p].op = "update" /\ inflight[q].op = "delete"
        /\ inflight[p].id = inflight[q].id
        /\ inflight[q].response.status = 204
        /\ inflight[p].response.status = 500
        /\ inflight[p].id \notin DOMAIN books

\* the delete took effect after the update's ExistsAsync and before its
\* GetByIdAsync: the update is answered 404 "Book not found"
C24_WitnessBeforeRead ==
    \E p, q \in DOMAIN inflight :
        /\ inflight[p].op = "update" /\ inflight[q].op = "delete"
        /\ inflight[p].id = inflight[q].id
        /\ inflight[q].response.status = 204
        /\ inflight[p].response = NotFound("Book not found")
        /\ inflight[p].id \notin DOMAIN books

(***************************************************************************)
(* The Dashboard's book form.  handleSubmit checks the fields, uploads the *)
(* cover image and the book file that were selected, and then creates or   *)
(* updates the book with the URLs the uploads returned.  The first request *)
(* that fails ends the flow with an error message.                         *)
(***************************************************************************)
\* how many stored files a behaviour with the form may reach
MaxFlowFiles == 2

\* the book id as the form sends it for bookId (book?.id)
IdString(id) == IF id = 1 THEN "b1" ELSE IF id = 2 THEN "b2" ELSE "b3"

\* formData: the strings are '' until set, fileSize is 0
FormBase ==
    [name |-> <<"A">>, category |-> <<"F">>, price |-> 9990,
     description |-> <<"a">>, imageUrl |-> Some(<<>>), fileUrl |-> Some(<<>>),
     fileName |-> Some(<<>>), fileSize |-> Some(0)]

\* what the form can hold at submit: complete, without a name, and with a
\* price above the backend's range
FormDatas ==
    {FormBase, [FormBase EXCEPT !.name = <<>>], [FormBase EXCEPT !.price = 100000000]}

\* the cover handleImageChange accepted: its MIME type is an image type and
\* its size at most 5MB; the name is the user's
CoverJpg ==
    Some([FileName |-> <<"cover", ".JPG">>, Length |-> 1, bytes |-> "x"])

SelectedImages ==
    {None, CoverJpg,
     Some([FileName |-> <<"cover", ".jfif">>, Length |-> 1, bytes |-> "x"])}

\* the book file handleBookFileChange accepted: type or extension allowed
\* and size at most 100MB
BookPdf ==
    Some([FileName |-> <<"book", ".pdf">>, Length |-> 1, bytes |-> "y"])

SelectedBookFiles ==
    {None, BookPdf,
     Some([FileName |-> <<"book", ".pdf">>, Length |-> 0, bytes |-> "y"])}

GuidAt(n) == IF n < Len(Guids) THEN Guids[n + 1] ELSE "none"

\* the field checks at the head of handleSubmit: the message thrown, or ""
FormError(formData) ==
    IF formData.name = <<>> THEN "Book name is required"
    ELSE IF formData.category = <<>> THEN "Category is required"
    ELSE IF formData.price < 0 THEN "Price must be a positive number"
    ELSE IF formData.description = <<>> THEN "Description is required"
    ELSE ""

\* the create or update request with the body's validation in front of it
SaveRequestResult(bks, newId, utcNow, userId, book, dto) ==
    IF ~ModelStateIsValid(dto)
        THEN [books |-> bks, response |-> ValidationProblem]
    ELSE IF book = None
        THEN CreateBookResult(bks, newId, utcNow, userId, dto)
        ELSE UpdateBookResult(bks, utcNow, userId, Value(book), dto)

\* handleSubmit: the tables after it, the Guids drawn, the requests sent
\* with their status, and the error the form shows ("" when it saved)
HandleSubmitResult(bks, fls, newId, guids, utcNow, userId, book, formData, imageFile, bookFile) ==
    LET hint == IF book = None THEN None ELSE Some(IdString(Value(book)))
        nothing == [books |-> bks, files |-> fls, guids |-> guids, sent |-> <<>>]
        image == UploadImageResult(fls, imageFile, hint, GuidAt(guids), utcNow)
        imageSent == IF imageFile = None THEN <<>>
                     ELSE <<[op |-> "upload-image", status |-> image.response.status]>>
        afterImage ==
            IF imageFile = None \/ image.response.status # 200
                THEN nothing
                ELSE [nothing EXCEPT
                         !.files = image.files,
                         !.guids = IF hint = None THEN guids + 1 ELSE guids]
        doc == UploadBookFileResult(afterImage.files, bookFile, hint,
                                    GuidAt(afterImage.guids), utcNow)
        docSent == IF bookFile = None THEN <<>>
                   ELSE <<[op |-> "upload-book", status |-> doc.response.status]>>
        afterDoc ==
            IF bookFile = None \/ doc.response.status # 200
                THEN afterImage
                ELSE [afterImage EXCEPT
                         !.files = doc.files,
                         !.guids = IF hint = None THEN @ + 1 ELSE @]
        finalFormData ==
            [formData EXCEPT
                !.imageUrl = IF imageFile # None
                                 THEN Some(image.response.body.url) ELSE @,
                !.fileUrl = IF bookFile # None
                                THEN Some(doc.response.body.url) ELSE @,
                !.fileName = IF bookFile # None
                                 THEN Some(doc.response.body.fileName) ELSE @,
                !.fileSize = IF bookFile # None
                                 THEN Some(doc.response.body.size) ELSE @]
        saved == SaveRequestResult(bks, newId, utcNow, userId, book, finalFormData)
        saveSent == <<[op |-> IF book = None THEN "create" ELSE "update",
                       status |-> saved.response.status]>>
    IN  IF FormError(formData) # ""
            THEN [nothing EXCEPT !.sent = <<>>] @@ [error |-> FormError(formData)]
        ELSE IF imageFile # None /\ image.response.status # 200
            THEN [nothing EXCEPT !.sent = imageSent]
                    @@ [error |-> "File upload failed: " \o image.response.message]
        ELSE IF bookFile # None /\ doc.response.status # 200
            THEN [afterImage EXCEPT !.sent = imageSent \o docSent]
                    @@ [error |-> "File upload failed: " \o doc.response.message]
        ELSE IF saved.response.status \notin {200, 201}
            THEN [afterDoc EXCEPT !.sent = imageSent \o docSent \o saveSent]
                    @@ [error |-> saved.response.message]
        ELSE [afterDoc EXCEPT !.books = saved.books,
                              !.sent = imageSent \o docSent \o saveSent]
                 @@ [error |-> ""]

\* the user submits the form; book is the book under edit, or None
SaveBook(userId, book, formData, imageFile, bookFile) ==
    LET r == HandleSubmitResult(books, files, nextId + 1, nextGuid, now, userId,
                                book, formData, imageFile, bookFile)
        created == r.error = "" /\ book = None
    IN  /\ book # None => Value(book) \in 1..nextId
        /\ r.guids <= Len(Guids)
        /\ Cardinality(DOMAIN r.files) <= MaxFlowFiles
        /\ created => nextId < MaxBooks
        /\ books' = r.books
        /\ files' = r.files
        /\ nextGuid' = r.guids
        /\ nextId' = IF created THEN nextId + 1 ELSE nextId
        /\ creator' = IF created
                          THEN [i \in DOMAIN creator \cup {nextId + 1} |->
                                   IF i = nextId + 1 THEN userId ELSE creator[i]]
                          ELSE creator
        /\ request' = Request("save", Some(userId), book, None, None)
        /\ response' = [status |-> IF r.error = "" THEN 200 ELSE 0,
                        message |-> r.error, body |-> r.sent]
        /\ uiEvent' = [kind |-> "save", key |-> r.error, value |-> Some(r.sent)]
        /\ UNCHANGED <<now, queryFilters, authUser, filters, dashBooks, stats>>
        /\ UNCHANGED <<users, credential, storeBooks, storeError, inflight,
                       uploader, location>>

\* the forms submitted: the complete one with every selection of files, and
\* the two the backend or the form itself turns down with files selected
Submissions ==
    {<<FormBase, imageFile, bookFile>> :
        imageFile \in SelectedImages, bookFile \in SelectedBookFiles}
    \cup {<<formData, imageFile, bookFile>> :
            formData \in FormDatas \ {FormBase},
            imageFile \in {CoverJpg}, bookFile \in {None, BookPdf}}

\* the user signed in to the Dashboard; the requests of this section are
\* this user's, from the form or from another window
FormUser == "u1"

NextSave ==
    \/ \E book \in {None, Some(1)}, form \in Submissions :
           SaveBook(FormUser, book, form[1], form[2], form[3])
    \/ \E id \in BookIds : UpdateBookAtNow(FormUser, id, FormBase)
    \/ \E id \in BookIds : DeleteBook(FormUser, id)
    \/ \E file \in SelectedImages : UploadImage(FormUser, file, None)
    \/ \E file \in SelectedBookFiles : UploadBookFile(FormUser, file, None)
    \/ \E fileName \in DeleteFileNames, fileType \in FileTypes :
           DeleteFile(FormUser, fileName, fileType)

SpecSave == Init /\ [][NextSave]_vars

\* an operation reported failure
ReportsFailure(req, resp) ==
    /\ req.op \in {"save", "create", "update", "delete", "upload-image",
                   "upload-book", "delete-file"}
    /\ resp.status \notin {200, 201, 204}

\* C25: no operation ends in a partial-success state: whenever a create,
\* update, delete, upload, delete-upload or the form's save-book flow
\* reports failure, the book records and the stored files are as they were
\* before it started, and no request of it was sent a second time.
C25_NoPartialSuccess ==
    [][(now' = now /\ ReportsFailure(request', response'))
         => /\ books' = books
            /\ files' = files
            /\ uiEvent'.kind = "save"
                  => LET sent == Value(uiEvent'.value)
                     IN  \A i, j \in DOMAIN sent : i # j => sent[i].op # sent[j].op]_vars

\* the same, for the single requests: a request that is answered with a
\* failure leaves books and files as they were; and the flow sends each of
\* its requests once and none after the first that fails
C25_FailedRequestChangesNothing ==
    [][/\ (now' = now /\ ReportsFailure(request', response')
              /\ uiEvent'.kind # "save")
            => (books' = books /\ files' = files)
       /\ uiEvent'.kind = "save"
            => LET sent == Value(uiEvent'.value)
               IN  /\ \A i, j \in DOMAIN sent : i # j => sent[i].op # sent[j].op
                   /\ \A i \in DOMAIN sent :
                         i < Len(sent) => sent[i].status \in {200, 201}]_vars

(***************************************************************************)
(* Register requests that overlap: EmailExistsAsync and CreateAsync are    *)
(* two awaits, and another request's calls can come in between.            *)
(***************************************************************************)
RegisterHandler(registerDto) ==
    [op |-> "register", userId |-> None, id |-> None, dto |-> Some(registerDto),
     pc |-> "EmailExistsAsync", entity |-> None, response |-> NoResponse]

\* mutant: the email is stored as it was typed
RegisterStepAsTyped(h, usrs, newId, utcNow, salt) ==
    LET registerDto == Value(h.dto)
    IN  CASE h.pc = "EmailExistsAsync" ->
               IF EmailExistsAsync(usrs, registerDto.email)
                   THEN [handler |-> Finish(h, BadRequest(
                            "User with this email already exists")),
                         users |-> usrs]
                   ELSE [handler |->
                            [h EXCEPT
                                !.pc = "CreateAsync",
                                !.entity = Some(
                                    [id |-> newId,
                                     email |-> registerDto.email,
                                     passwordHash |->
                                         HashPassword(registerDto.password, salt),
                                     fullName |-> registerDto.fullName,
                                     createdAt |-> utcNow])],
                         users |-> usrs]
          [] h.pc = "CreateAsync" ->
               LET c == UserCreateAsync(usrs, utcNow,
                                        [Value(h.entity) EXCEPT !.id = newId])
               IN  IF c.threw
                       THEN [handler |-> Finish(h, StatusCode500(
                                "An error occurred during registration")),
                             users |-> usrs]
                       ELSE [handler |-> Finish([h EXCEPT !.entity = Some(c.entity)],
                                                Ok(AuthResponseDto(c.entity, utcNow))),
                             users |-> c.users]

\* Register up to its next await: the handler after the step and the users
\* table after it.  The Guid of the new user is drawn when the row is added.
RegisterStep(h, usrs, newId, utcNow, salt) ==
    LET registerDto == Value(h.dto)
    IN  CASE h.pc = "EmailExistsAsync" ->
               IF EmailExistsAsync(usrs, registerDto.email)
                   THEN [handler |-> Finish(h, BadRequest(
                            "User with this email already exists")),
                         users |-> usrs]
                   ELSE [handler |->
                            [h EXCEPT
                                !.pc = "CreateAsync",
                                !.entity = Some(
                                    [id |-> newId,
                                     email |-> ToLower(registerDto.email),
                                     passwordHash |->
                                         HashPassword(registerDto.password, salt),
                                     fullName |-> registerDto.fullName,
                                     createdAt |-> utcNow])],
                         users |-> usrs]
          [] h.pc = "CreateAsync" ->
               LET c == UserCreateAsync(usrs, utcNow,
                                        [Value(h.entity) EXCEPT !.id = newId])
               IN  IF c.threw
                       THEN [handler |-> Finish(h, StatusCode500(
                                "An error occurred during registration")),
                             users |-> usrs]
                       ELSE [handler |-> Finish([h EXCEPT !.entity = Some(c.entity)],
                                                Ok(AuthResponseDto(c.entity, utcNow))),
                             users |-> c.users]

RegisterArrives(registerDto) == Arrive(RegisterHandler(registerDto))

RegisterProceeds(p, salt) ==
    /\ p \in DOMAIN inflight
    /\ inflight[p].pc # "done"
    /\ Len(users) < Len(UserIds)
    /\ LET r == RegisterStep(inflight[p], users, UserIds[Len(users) + 1], now, salt)
       IN  /\ inflight' = [inflight EXCEPT ![p] = r.handler]
           /\ users' = r.users
           /\ IF r.handler.pc = "done"
                  THEN /\ request' = Request("register", None, None, r.handler.dto, None)
                       /\ response' = r.handler.response
                  ELSE UNCHANGED <<request, response>>
    /\ uiEvent' = [kind |-> "proceed", key |-> inflight[p].pc, value |-> Some(p)]
    /\ UNCHANGED <<books, nextId, now, creator, queryFilters, authUser, filters,
                   dashBooks, stats>>
    /\ UNCHANGED <<files, nextGuid, credential, storeBooks, storeError,
                   uploader, location>>

NextRegisterRace ==
    \/ Tick
    \/ \E registerDto \in RegisterDtos : RegisterArrives(registerDto)
    \/ \E p \in 1..MaxInflight, salt \in Salts : RegisterProceeds(p, salt)

SpecRegisterRace == Init /\ [][NextRegisterRace]_vars

\* C26: register requests for one email (in the same or in different letter
\* case) that overlap, all passing EmailExistsAsync before any of them
\* inserts: at most one user row is created and at most one request is
\* answered with a token, the others fail, and never do two user rows have
\* the same case-folded email.
C26_OneUserPerEmail ==
    /\ \A i, j \in DOMAIN users :
          i # j => ToLower(users[i].email) # ToLower(users[j].email)
    /\ \A p, q \in DOMAIN inflight :
          (/\ p # q
           /\ SameEmailIgnoringCase(Value(inflight[p].dto).email,
                                    Value(inflight[q].dto).email)
           /\ inflight[p].pc = "done" /\ inflight[q].pc = "done")
             => /\ ~(inflight[p].response.status = 200
                       /\ inflight[q].response.status = 200)
                /\ Cardinality({i \in DOMAIN users :
                       SameEmailIgnoringCase(users[i].email,
                                             Value(inflight[p].dto).email)}) <= 1

\* two registers for "a" and "A" both passed the check before either
\* inserted: one got the token, the other's insert hit the unique index
C26_Witness ==
    /\ Len(inflight) = 2
    /\ Value(inflight[1].dto).email # Value(inflight[2].dto).email
    /\ SameEmailIgnoringCase(Value(inflight[1].dto).email,
                             Value(inflight[2].dto).email)
    /\ inflight[1].response.status = 500
    /\ inflight[2].response.status = 200
    /\ Len(users) = 1

(***************************************************************************)
(* The Dashboard with its requests in flight.  setFilters re-runs the      *)
(* [filters] effect, which calls loadBooks; a saved or deleted book calls  *)
(* loadInitialData, which calls loadBooks and loadStats.  Each load sends  *)
(* its request and applies the answer when it arrives; the component holds *)
(* no request number and cancels nothing, so answers are applied in the    *)
(* order of arrival.                                                       *)
(***************************************************************************)
\* how many list requests of the Dashboard are pending at once
MaxPending == 3

\* a my-books request as sent: by loadBooks with the filters of its render,
\* or by loadStats without filters
Pending(kind, filtersArg) ==
    [kind |-> kind, filters |-> filtersArg, pc |-> "sent", body |-> <<>>]

RemoveAt(seq, p) == [i \in 1..(Len(seq) - 1) |-> IF i < p THEN seq[i] ELSE seq[i + 1]]

\* the loads loadInitialData starts (loadCategories fills the form's
\* category list, which is not modelled)
LoadInitialData(f) == <<Pending("books", Some(f)), Pending("stats", None)>>

\* what is on display once every request has been applied
MyBooksNow(f) ==
    GetMyBooksResult(books, Value(authUser), BindQuery(GetMyBooksParams(f))).response.body

DashFrame ==
    /\ UNCHANGED <<queryFilters, authUser>>
    /\ UNCHANGED <<users, files, nextGuid, credential, storeBooks, storeError,
                   uploader, location>>

\* handleFilterChange: setFilters, then the effect sends the list request
DashFilterChangeStarts(key, value) ==
    LET newFilters == [filters EXCEPT ![key] = OrUndefined(value)]
    IN  /\ authUser # None
        /\ Len(inflight) < MaxPending
        /\ newFilters # filters
        /\ filters' = newFilters
        /\ inflight' = Append(inflight, Pending("books", Some(newFilters)))
        /\ uiEvent' = [kind |-> "filter", key |-> key, value |-> value]
        /\ UNCHANGED <<books, nextId, now, creator, request, response, dashBooks,
                       stats>>
        /\ DashFrame

\* the form saved a new book: createBook was answered 201, then onSave
DashBookCreated(dto) ==
    /\ authUser # None
    /\ nextId < MaxBooks
    /\ now < MaxTime
    /\ Len(inflight) + 2 <= MaxPending
    /\ LET r == CreateBookResult(books, nextId + 1, now + 1, Value(authUser), dto)
       IN  /\ books' = r.books
           /\ response' = r.response
    /\ nextId' = nextId + 1
    /\ now' = now + 1
    /\ creator' = [i \in DOMAIN creator \cup {nextId + 1} |->
                      IF i = nextId + 1 THEN Value(authUser) ELSE creator[i]]
    /\ request' = Request("create", authUser, None, Some(dto), None)
    /\ inflight' = inflight \o LoadInitialData(filters)
    /\ uiEvent' = [kind |-> "saved", key |-> "create", value |-> None]
    /\ UNCHANGED <<filters, dashBooks, stats>>
    /\ DashFrame

\* the form saved an edit of a listed book: updateBook, then onSave when it
\* was answered 200
DashBookUpdated(id, dto) ==
    /\ authUser # None
    /\ \E i \in DOMAIN dashBooks : dashBooks[i].id = id
    /\ now < MaxTime
    /\ Len(inflight) + 2 <= MaxPending
    /\ LET r == UpdateBookResult(books, now + 1, Value(authUser), id, dto)
       IN  /\ books' = r.books
           /\ response' = r.response
           /\ now' = IF r.response.status = 200 THEN now + 1 ELSE now
           /\ inflight' = IF r.response.status = 200
                              THEN inflight \o LoadInitialData(filters)
                              ELSE inflight
    /\ request' = Request("update", authUser, Some(id), Some(dto), None)
    /\ uiEvent' = [kind |-> "saved", key |-> "update", value |-> None]
    /\ UNCHANGED <<nextId, creator, filters, dashBooks, stats>>
    /\ DashFrame

\* confirmDelete for a listed book: deleteBook, then loadInitialData when it
\* was answered 204
DashConfirmDelete(id) ==
    /\ authUser # None
    /\ \E i \in DOMAIN dashBooks : dashBooks[i].id = id
    /\ Len(inflight) + 2 <= MaxPending
    /\ LET r == DeleteBookResult(books, Value(authUser), id)
       IN  /\ books' = r.books
           /\ response' = r.response
           /\ inflight' = IF r.response.status = 204
                              THEN inflight \o LoadInitialData(filters)
                              ELSE inflight
    /\ request' = Request("delete", authUser, Some(id), None, None)
    /\ uiEvent' = [kind |-> "deleted", key |-> "", value |-> None]
    /\ UNCHANGED <<nextId, now, creator, filters, dashBooks, stats>>
    /\ DashFrame

\* the backend serves pending request p
MyBooksAnswered(p) ==
    /\ p \in DOMAIN inflight
    /\ inflight[p].pc = "sent"
    /\ LET dto == BindQuery(GetMyBooksParams(inflight[p].filters))
           r == GetMyBooksResult(books, Value(authUser), dto)
       IN  /\ inflight' = [inflight EXCEPT ![p].pc = "answered",
                                           ![p].body = r.response.body]
           /\ request' = Request("my-books", authUser, None, None, Some(dto))
           /\ response' = r.response
    /\ uiEvent' = [kind |-> "answered", key |-> inflight[p].kind, value |-> None]
    /\ UNCHANGED <<books, nextId, now, creator, filters, dashBooks, stats>>
    /\ DashFrame

\* the answer to pending request p arrives: loadBooks calls setBooks,
\* loadStats computes the figures and calls setStats
MyBooksArrives(p) ==
    /\ p \in DOMAIN inflight
    /\ inflight[p].pc = "answered"
    /\ IF inflight[p].kind = "books"
           THEN /\ dashBooks' = inflight[p].body
                /\ stats' = stats
           ELSE /\ stats' = ComputeStats(inflight[p].body)
                /\ dashBooks' = dashBooks
    /\ inflight' = RemoveAt(inflight, p)
    /\ uiEvent' = [kind |-> "arrived", key |-> inflight[p].kind, value |-> None]
    /\ UNCHANGED <<books, nextId, now, creator, request, response, filters>>
    /\ DashFrame

NextDash ==
    \/ \E value \in FilterInputs("category") :
           DashFilterChangeStarts("category", value)
    \/ \E dto \in UiDtos : DashBookCreated(dto)
    \/ \E id \in BookIds, dto \in UiDtos : DashBookUpdated(id, dto)
    \/ \E id \in BookIds : DashConfirmDelete(id)
    \/ \E p \in 1..MaxPending : MyBooksAnswered(p)
    \/ \E p \in 1..MaxPending : MyBooksArrives(p)

SpecDash == InitUI /\ [][NextDash]_vars

\* the books on the server before the Dashboard is opened
BookSeeded(userId, dto) ==
    /\ uiEvent.kind = "none"
    /\ CreateBook(userId, dto)

\* filter changes over a catalog that stays as it is
NextFilterRace ==
    \/ \E userId \in Users, dto \in UiDtos : BookSeeded(userId, dto)
    \/ \E key \in {"search", "category"} : \E value \in FilterInputs(key) :
           DashFilterChangeStarts(key, value)
    \/ \E p \in 1..MaxPending : MyBooksAnswered(p)
    \/ \E p \in 1..MaxPending : MyBooksArrives(p)

SpecFilterRace == InitUI /\ [][NextFilterRace]_vars

\* C27: once the filter changes have stopped and every request in flight
\* has been answered and applied, in whatever order the answers arrived, the
\* list on display is the answer for the current filters, never a late
\* answer for older filters.
C27_CurrentFiltersShown ==
    (uiEvent.kind # "none" /\ inflight = <<>>)
        => dashBooks = MyBooksNow(Some(filters))

C28_StatsReloadStarted ==
    [][/\ (uiEvent'.kind \in {"saved", "deleted"}
              /\ response'.status \in {200, 201, 204})
            => /\ Len(inflight') = Len(inflight) + 2
               /\ inflight'[Len(inflight')] = Pending("stats", None)
       /\ (uiEvent'.kind = "arrived" /\ uiEvent'.key = "stats")
            => \E p \in DOMAIN inflight :
                  /\ inflight[p].kind = "stats"
                  /\ stats' = ComputeStats(inflight[p].body)
       /\ uiEvent'.kind = "filter"
            => /\ stats' = stats
               /\ inflight'[Len(inflight')].kind = "books"
       /\ (uiEvent'.kind = "arrived" /\ uiEvent'.key = "books")
            => stats' = stats]_vars

(***************************************************************************)
(* Stored files, who uploaded them, and the books that point at them.  The *)
(* upload handlers read the user id for the log only; nothing on disk or   *)
(* in the database records it, so it is kept here as history.              *)
(***************************************************************************)
\* the uploader on record once userId has written filePath
WrittenBy(up, filePath, userId) ==
    [q \in DOMAIN up \cup {filePath} |-> IF q = filePath THEN userId ELSE up[q]]

UploadRecorded(op, userId, file, bookId, r) ==
    /\ UploadWrites(op, userId, file, bookId, r)
    /\ uploader' = IF r.response.status = 200
                       THEN WrittenBy(uploader, r.response.body.url, userId)
                       ELSE uploader

UploadImageBy(userId, file) ==
    /\ userId \in Users
    /\ UploadRecorded("upload-image", userId, file, None,
                      UploadImageResult(files, file, None, NewGuid, now))

UploadBookFileBy(userId, file) ==
    /\ userId \in Users
    /\ UploadRecorded("upload-book", userId, file, None,
                      UploadBookFileResult(files, file, None, NewGuid, now))

\* a book whose imageUrl and fileUrl are the URLs of stored files
CreateBookPointingAt(userId, imagePath, filePath) ==
    /\ imagePath \in DOMAIN files
    /\ filePath \in DOMAIN files
    /\ CreateBook(userId, [FormBase EXCEPT !.imageUrl = Some(imagePath),
                                           !.fileUrl = Some(filePath)])

\* the stored paths and one that was never stored
FilePaths ==
    DOMAIN files \cup {<<"images", <<"b1", 0, ".txt">>>>}

NextFileOwners ==
    \/ \E userId \in Users : UploadImageBy(userId, CoverJpg)
    \/ \E userId \in Users : UploadBookFileBy(userId, BookPdf)
    \/ \E userId \in Users, imagePath \in FilePaths, filePath \in FilePaths :
           CreateBookPointingAt(userId, imagePath, filePath)
    \/ \E userId \in Users, fileName \in DeleteFileNames, fileType \in FileTypes :
           DeleteFile(userId, fileName, fileType)

SpecFileOwners == Init /\ [][NextFileOwners]_vars

\* the path a delete-upload request names
DeletePath(req) == <<Value(req.dto).fileType, Value(req.dto).fileName>>

\* C29: DeleteFile checks no ownership and touches no book: for whichever
\* signed-in user asks and whichever stored file of kind images or books,
\* the file is removed, whoever uploaded it, and every book record, also
\* one whose imageUrl or fileUrl points at the file, is left as it is.
C29_AnyUserDeletesAnyFile ==
    [][request'.op = "delete-file"
         => /\ books' = books
            /\ (/\ Value(request'.dto).fileType \in {"images", "books"}
                /\ DeletePath(request') \in DOMAIN files)
                  => /\ response'.status = 200
                     /\ DeletePath(request') \notin DOMAIN files'
                     /\ \A q \in DOMAIN files' : q \in DOMAIN files /\ files'[q] = files[q]]_vars

\* a user deleted a file another user uploaded while a book points at it
C29_Witness ==
    /\ request.op = "delete-file"
    /\ response.status = 200
    /\ DeletePath(request) \notin DOMAIN files
    /\ DeletePath(request) \in DOMAIN uploader
    /\ uploader[DeletePath(request)] # Value(request.userId)
    /\ \E i \in DOMAIN books :
          \/ books[i].imageUrl = Some(DeletePath(request))
          \/ books[i].fileUrl = Some(DeletePath(request))

(***************************************************************************)
(* Navigation.  App registers four routes; the components move between     *)
(* them with navigate(...), and the API client sets window.location on a   *)
(* 401.  A path is the sequence of its segments.                           *)
(***************************************************************************)
\* the <Route path=...> elements of App
Routes ==
    {<<>>, <<"login">>, <<"download", ":bookId">>, <<"writers">>}

IsParam(segment) == segment \in {":bookId"}

\* react-router's match of a path against one route pattern
MatchPath(pattern, path) ==
    /\ Len(pattern) = Len(path)
    /\ \A i \in DOMAIN pattern : IsParam(pattern[i]) \/ pattern[i] = path[i]

\* <Routes> renders the element of a matching route, or nothing
Matched(path) == \E pattern \in Routes : MatchPath(pattern, path)

\* navigate(to) and window.location.href = to
Navigate(source, to) ==
    /\ location' = to
    /\ uiEvent' = [kind |-> "navigate", key |-> source, value |-> None]
    /\ request' = NoRequest
    /\ response' = NoResponse
    /\ UNCHANGED <<books, nextId, now, creator, queryFilters, filters, dashBooks,
                   stats>>
    /\ UNCHANGED <<users, files, nextGuid, credential, storeBooks, storeError,
                   inflight, uploader>>

\* Navbar: the brand and the Store link
NavbarStore ==
    /\ Navigate("navbar-store", <<>>)
    /\ UNCHANGED authUser

\* Navbar: the Writers Dashboard link, shown when signed in
NavbarWriters ==
    /\ authUser # None
    /\ Navigate("navbar-writers", <<"writers">>)
    /\ UNCHANGED authUser

\* Navbar: the Login button, shown when signed out
NavbarLogin ==
    /\ authUser = None
    /\ Navigate("navbar-login", <<"login">>)
    /\ UNCHANGED authUser

\* Navbar.handleLogout: signOut, then navigate('/')
NavbarLogout ==
    /\ authUser # None
    /\ Navigate("logout", <<>>)
    /\ authUser' = None

\* Store.handleBookClick on the card of a book
StoreBookClick(id) ==
    /\ location = <<>>
    /\ id \in DOMAIN books
    /\ Navigate("book-click", <<"download", IdString(id)>>)
    /\ UNCHANGED authUser

\* DownloadPage: Back to Store
DownloadBackToStore ==
    /\ Len(location) = 2
    /\ Navigate("back-to-store", <<>>)
    /\ UNCHANGED authUser

\* Login.handleSubmit ends without a navigation: the page stays as it is
StayOnPage(outcome) ==
    /\ uiEvent' = [kind |-> "login", key |-> outcome, value |-> None]
    /\ request' = NoRequest
    /\ response' = NoResponse
    /\ UNCHANGED <<books, nextId, now, creator, queryFilters, filters, dashBooks,
                   stats>>
    /\ UNCHANGED <<users, files, nextGuid, credential, storeBooks, storeError,
                   inflight, uploader, location>>

\* Login.handleSubmit with form input that passes its checks.  signUp and
\* signIn of the AuthProvider set the user when the API call resolves and
\* throw when it rejects; after signUp the form shows a message, after
\* signIn it navigates; a rejection shows the error.
LoginSubmit(userId, isSignUp, resolved) ==
    /\ location = <<"login">>
    /\ IF ~resolved
           THEN /\ StayOnPage("error")
                /\ UNCHANGED authUser
           ELSE IF isSignUp
                    THEN /\ StayOnPage("signed-up")
                         /\ authUser' = Some(userId)
                    ELSE /\ Navigate("sign-in", <<"dashboard">>)
                         /\ authUser' = Some(userId)

\* the response interceptor on a 401: the token is dropped and the browser
\* is sent to /login
UnauthorizedRedirect ==
    /\ authUser # None
    /\ Navigate("unauthorized", <<"login">>)
    /\ authUser' = None

NextNav ==
    \/ \E userId \in Users, dto \in UiDtos : CreateBook(userId, dto)
    \/ NavbarStore
    \/ NavbarWriters
    \/ NavbarLogin
    \/ NavbarLogout
    \/ \E id \in BookIds : StoreBookClick(id)
    \/ DownloadBackToStore
    \/ \E userId \in Users, isSignUp \in BOOLEAN, resolved \in BOOLEAN :
            LoginSubmit(userId, isSignUp, resolved)
    \/ UnauthorizedRedirect

SpecNav == Init /\ [][NextNav]_vars

\* C30: every navigation the components perform (the navbar links, logout,
\* a click on a book, back to store, the redirect after a successful
\* sign-in) targets a path that matches a route registered in App, and a
\* successful sign-in lands on the writers dashboard route.
C30_NavigationsMatchRoutes ==
    /\ [][uiEvent'.kind = "navigate" => Matched(location')]_vars
    /\ [][(uiEvent'.kind = "navigate" /\ uiEvent'.key = "sign-in")
            => location' = <<"writers">>]_vars

\* the same without the redirect after sign-in: the navbar links, logout,
\* the book click, back to store and the redirect on a 401 match a route
C30_OtherNavigationsMatch ==
    [][(uiEvent'.kind = "navigate" /\ uiEvent'.key # "sign-in")
         => Matched(location')]_vars

====
